---- MODULE Spec2Model ----
(***************************************************************************)
(* A model of the PFAC multi pattern matcher of src/util-mpm-pfac.c: the   *)
(* pattern store (SCPFACAddPattern), the compilation of the goto, delta    *)
(* and output tables (SCPFACPreparePatterns) and the scan loop             *)
(* (SCPFACSearch) with the caller's PatternMatcherQueue as the sink.       *)
(*                                                                         *)
(* Conventions.  A C array indexed from 0 is a sequence indexed from 1, so *)
(* state s owns row s + 1 of a table.  pid_pat_list, an array of           *)
(* max_pat_id + 1 entries, is the record [size, filled]: filled maps a     *)
(* pattern id to its entry when the entry was written after the memset,    *)
(* and every other entry reads as zeroes.  A NULL table is the empty       *)
(* sequence.  A byte is its integer value.                                 *)
(***************************************************************************)
EXTENDS Integers, Sequences, FiniteSets, TLC

(***************************************************************************)
(* Bounds of the model.                                                    *)
(***************************************************************************)
\* longest pattern a register call carries
MaxPatLen == 2
\* longest buffer handed to a scan
MaxBufLen == 3
\* number of register calls made on one context
MaxPatterns == 2
\* largest pattern id a register call carries
MaxPid == 1

\* bounds of the small specification: pattern length, buffer length, register calls
SmallPatLen == 1
SmallBufLen == 2
SmallCalls == 2
\* number of register calls made on one context after prepare
MaxLate == 1
\* bounds of the specification of concurrent scans: register calls, buffer length
ConcCalls == 1
ConcBufLen == 1
\* number of scans into one sink
MaxScans == 2
\* the slots of the state queue in the specification of the queue, where it
\* stands for STATE_QUEUE_CONTAINER_SIZE
SmallQueueSize == 3
MaxQueueCalls == 8

\* number of calls of prepare on one context
MaxPrepares == 3
\* number of register calls before several scans into one sink
SinkCalls == 2

\* bounds of the specification of longer patterns: pattern length, buffer length
LongPatLen == 3
LongBufLen == 4

\* the byte values of the model: 'A', 'a', 'b'
Bytes == {65, 97, 98}
\* the byte values the small specification draws from: 'A', 'a'
SmallBytes == {65, 97}
\* the byte values the specification of longer patterns draws from: 'a', 'b'
LongBytes == {97, 98}

\* the byte strings over B of length at most n
RECURSIVE SeqsUpTo(_, _)
SeqsUpTo(B, n) ==
    IF n = 0 THEN {<<>>}
    ELSE LET shorter == SeqsUpTo(B, n - 1)
         IN  shorter \cup {Append(s, b) : s \in {t \in shorter : Len(t) = n - 1}, b \in B}

\* the patterns register is called with (length 0 included)
PatternInputs == SeqsUpTo(Bytes, MaxPatLen)
SmallPatternInputs == SeqsUpTo(SmallBytes, SmallPatLen)
\* the patterns registered before concurrent scans: lower case only
ConcPatternInputs == SeqsUpTo({97}, SmallPatLen)
LongPatternInputs == SeqsUpTo(LongBytes, LongPatLen)
\* the patterns of the specification of the compilation: lower case only
CompilePatternInputs == SeqsUpTo(LongBytes, MaxPatLen)
\* the pattern ids register is called with
PidInputs == 0..MaxPid
SmallPidInputs == {0, 1}
\* pattern ids below and from 1 << 16; pid is a uint32_t
WidePidInputs == {0, 65536}
\* the buffers scan is called with (length 0 included)
BufferInputs == SeqsUpTo(Bytes, MaxBufLen)
SmallBufferInputs == SeqsUpTo(SmallBytes, SmallBufLen)
ConcBufferInputs == SeqsUpTo(SmallBytes, ConcBufLen)
LongBufferInputs == SeqsUpTo(LongBytes, LongBufLen)

\* the patterns and the buffers of the scans into one sink: "a", "b"; "", "a",
\* "b", "ab"
SinkPatternInputs == {<<97>>, <<98>>}
SinkBufferInputs == {<<>>, <<97>>, <<98>>, <<97, 98>>}

\* the threads that scan at the same time
Scanners == {1, 2}

RECURSIVE SortedSeq(_)
SortedSeq(S) ==
    IF S = {} THEN <<>>
    ELSE LET m == CHOOSE x \in S : \A y \in S : x <= y
         IN  <<m>> \o SortedSeq(S \ {m})

\* the values "for (ascii_code = 0; ascii_code < 256; ascii_code++)" visits
AsciiCodes == SortedSeq(Bytes)

Range(s) == {s[k] : k \in 1..Len(s)}

(***************************************************************************)
(* Program constants.                                                      *)
(***************************************************************************)
SC_PFAC_FAIL == -1
INIT_HASH_SIZE == 65536
STATE_QUEUE_CONTAINER_SIZE == 65536
MPM_PATTERN_FLAG_NOCASE == 1
\* state_count below this: 16 bit cells
U16_STATE_LIMIT == 32767
\* 1 << 15: output presence bit of a 16 bit cell; 0x7FFF is STATE_BIT_U16 - 1
STATE_BIT_U16 == 32768
\* 1 << 24: output presence bit of a 32 bit cell; 0x00FFFFFF is STATE_BIT_U32 - 1
\* and 0xFF000000 selects the bits from it upwards
STATE_BIT_U32 == 16777216
\* 1 << 16: the verify bit of an output table pid; 0x0000FFFF is PID_VERIFY_BIT - 1
PID_VERIFY_BIT == 65536
\* the values of SC_PFAC_STATE_TYPE_U16, a uint16_t
SC_PFAC_STATE_TYPE_U16_RANGE == 65536
\* 1 << 16: a uint32_t is kept as <<high half, low half>>, the halves of 16 bits
HALF_RANGE == 65536
\* the sizes the counters of memory are moved by, of a build with pointers of
\* 8 bytes: sizeof(SCPFACCtx), sizeof(SCPFACPattern), sizeof(SCPFACPattern *),
\* sizeof(SC_PFAC_STATE_TYPE_U16) * 256, sizeof(SC_PFAC_STATE_TYPE_U32) * 256
SIZEOF_SCPFACCtx == 80
SIZEOF_SCPFACPattern == 48
SIZEOF_POINTER == 8
ROW_SIZE_U16 == 512
ROW_SIZE_U32 == 1024
\* ctx->single_state_size: sizeof(int32_t) * 256
SINGLE_STATE_SIZE == 1024
\* the switch construct_both_16_and_32_state_tables, 0 in the program
construct_both_16_and_32_state_tables == FALSE

(***************************************************************************)
(* Helpers the file takes from its headers.                                *)
(***************************************************************************)
\* u8_tolower: ASCII upper case letters to lower case, others unchanged
u8_tolower(c) == IF c >= 65 /\ c <= 90 THEN c + 32 ELSE c

\* memcpy_tolower(d, s, len): d is s with every byte folded
memcpy_tolower(s) == [k \in 1..Len(s) |-> u8_tolower(s[k])]

\* SCMemcmp(a, b, len): 0 when the len bytes are equal, 1 otherwise
SCMemcmp(a, b) == IF a = b THEN 0 ELSE 1

NoCase(flags) == (flags \div MPM_PATTERN_FLAG_NOCASE) % 2 = 1

(***************************************************************************)
(* State.                                                                  *)
(***************************************************************************)
VARIABLES
    phase,            \* where the caller is: "init", "prepared"; "exited" after a fatal exit
    calls,            \* history: the register calls made before prepare, in order, each
                      \* with the value it returned
    late,             \* history: the register calls made after prepare, in order
    registered,       \* history: the patterns SCPFACAddPattern stored, in order
    init_hash,        \* ctx->init_hash: <<chain>> (patterns in insertion order), <<>> when NULL
    goto_table,       \* ctx->goto_table, <<>> when NULL
    parray,           \* ctx->parray, <<>> when NULL
    pattern_cnt,      \* mpm_ctx->pattern_cnt
    minlen,           \* mpm_ctx->minlen
    maxlen,           \* mpm_ctx->maxlen
    max_pat_id,       \* ctx->max_pat_id
    state_count,      \* ctx->state_count
    state_table_u16,  \* ctx->state_table_u16
    output_table,     \* ctx->output_table
    pid_pat_list,     \* ctx->pid_pat_list
    pmq,              \* the caller's PatternMatcherQueue
    scan,             \* the last SCPFACSearch call: its buffer, return value and trace,
                      \* the sink as it was at the call (before) and the number of calls
    scanners,         \* per thread: the position in SCPFACSearch and the call's locals
    sinks,            \* the PatternMatcherQueues the threads scan into
    memory_cnt,       \* mpm_ctx->memory_cnt
    memory_size,      \* mpm_ctx->memory_size
    heap,             \* the blocks SCMalloc and SCRealloc returned and SCFree has not freed
    prepare_rets,     \* history: the values the calls of SCPFACPreparePatterns returned
    squeue,           \* a StateQueue the queue functions are called on, with the calls
    probe             \* a state count and a cell the table width code is applied to

ctxvars == <<init_hash, pattern_cnt, minlen, maxlen, max_pat_id>>
tblvars == <<state_count, state_table_u16, output_table, pid_pat_list>>
scratchvars == <<goto_table, parray>>
memvars == <<memory_cnt, memory_size, heap>>
unitvars == <<squeue, probe>>
vars == <<phase, calls, late, registered, init_hash, goto_table, parray,
          pattern_cnt, minlen, maxlen, max_pat_id,
          state_count, state_table_u16, output_table, pid_pat_list, pmq, scan,
          scanners, sinks, memory_cnt, memory_size, heap, prepare_rets, squeue, probe>>

(***************************************************************************)
(* Pattern store.                                                          *)
(***************************************************************************)
SCPFACInitHashRaw(pat, patlen) ==
    (patlen * pat[1] + (IF patlen > 1 THEN pat[2] ELSE 0)) % INIT_HASH_SIZE

SCPFACInitHash(p) == SCPFACInitHashRaw(p.original_pat, p.len)

\* a lookup that never finds the pattern
InitHashLookupNeverFinds(hash, pat, patlen, pid) == FALSE

\* TRUE when the lookup returns a pattern, FALSE when it returns NULL
SCPFACInitHashLookup(hash, pat, patlen, pid) ==
    IF hash = <<>> THEN FALSE
    ELSE \E n \in 1..Len(hash[1]) :
            /\ SCPFACInitHash(hash[1][n]) = SCPFACInitHashRaw(pat, patlen)
            /\ hash[1][n].id = pid

\* the chain of a bucket keeps insertion order, so appending to the list of all
\* stored patterns appends to the tail of the pattern's bucket
SCPFACInitHashAdd(hash, p) ==
    IF hash = <<>> THEN hash ELSE <<Append(hash[1], p)>>

\* the SCPFACPattern that SCPFACAddPattern fills in
NewPattern(pat, patlen, pid, flags) ==
    LET ci == memcpy_tolower(pat)
    IN  [id |-> pid, len |-> patlen, flags |-> flags,
         original_pat |-> pat, ci |-> ci,
         cs |-> IF NoCase(flags) THEN ci
                ELSE IF SCMemcmp(ci, pat) = 0 THEN ci ELSE pat]

\* the context fields SCPFACAddPattern reads and writes, as a record
Store(h, cnt, mn, mx, mpid) ==
    [init_hash |-> h, pattern_cnt |-> cnt, minlen |-> mn, maxlen |-> mx, max_pat_id |-> mpid]

\* a register call that counts a pattern of length 0
AddPatternCountsEmpty(c, pat, patlen, pid, flags) ==
    IF patlen = 0 THEN [c EXCEPT !.pattern_cnt = @ + 1]
    ELSE IF SCPFACInitHashLookup(c.init_hash, pat, patlen, pid) THEN c
    ELSE [init_hash |-> SCPFACInitHashAdd(c.init_hash, NewPattern(pat, patlen, pid, flags)),
          pattern_cnt |-> c.pattern_cnt + 1,
          maxlen |-> IF c.maxlen < patlen THEN patlen ELSE c.maxlen,
          minlen |-> IF c.minlen = 0 THEN patlen
                     ELSE IF c.minlen > patlen THEN patlen ELSE c.minlen,
          max_pat_id |-> IF pid > c.max_pat_id THEN pid ELSE c.max_pat_id]

\* a register call that sets minlen at the first pattern only
AddPatternMinOfFirst(c, pat, patlen, pid, flags) ==
    IF patlen = 0 THEN c
    ELSE IF SCPFACInitHashLookup(c.init_hash, pat, patlen, pid) THEN c
    ELSE [init_hash |-> SCPFACInitHashAdd(c.init_hash, NewPattern(pat, patlen, pid, flags)),
          pattern_cnt |-> c.pattern_cnt + 1,
          maxlen |-> IF c.maxlen < patlen THEN patlen ELSE c.maxlen,
          minlen |-> IF c.minlen = 0 THEN patlen ELSE c.minlen,
          max_pat_id |-> IF pid > c.max_pat_id THEN pid ELSE c.max_pat_id]

\* the value SCPFACAddPattern returns: 0 from "return 0" of the length test and
\* from the end of the function; -1 only from the error label, reached when
\* SCMalloc returns NULL, which it does not in this model
AddPatternRet(patlen) == IF patlen = 0 THEN 0 ELSE 0

AddPattern(c, pat, patlen, pid, flags) ==
    IF patlen = 0 THEN c
    ELSE IF SCPFACInitHashLookup(c.init_hash, pat, patlen, pid) THEN c
    ELSE [init_hash |-> SCPFACInitHashAdd(c.init_hash, NewPattern(pat, patlen, pid, flags)),
          pattern_cnt |-> c.pattern_cnt + 1,
          maxlen |-> IF c.maxlen < patlen THEN patlen ELSE c.maxlen,
          minlen |-> IF c.minlen = 0 THEN patlen
                     ELSE IF c.minlen > patlen THEN patlen ELSE c.minlen,
          max_pat_id |-> IF pid > c.max_pat_id THEN pid ELSE c.max_pat_id]

\* the context after SCPFACInitCtx
InitStore == Store(<< <<>> >>, 0, 0, 0, 0)

CurrentStore == Store(init_hash, pattern_cnt, minlen, maxlen, max_pat_id)

\* a StateQueue no function was called on, a probe never applied
NoQueue == <<>>
NoProbe == <<>>

(***************************************************************************)
(* Goto table and output table.  T is the pair of tables under             *)
(* construction with the state counter: [goto_table, output_table,         *)
(* state_count].                                                           *)
(***************************************************************************)
NoTables == [goto_table |-> <<>>, output_table |-> <<>>, state_count |-> 0]

\* a new row of FAIL transitions and an empty output row; the new state's
\* number is the state_count before the call
SCPFACInitNewState(T) ==
    [goto_table |-> Append(T.goto_table, [b \in Bytes |-> SC_PFAC_FAIL]),
     output_table |-> Append(T.output_table, <<>>),
     state_count |-> T.state_count + 1]

SCPFACSetOutputState(T, state, pid) ==
    IF \E i \in 1..Len(T.output_table[state + 1]) : T.output_table[state + 1][i] = pid
    THEN T
    ELSE [T EXCEPT !.output_table[state + 1] = Append(@, pid)]

\* the first loop of SCPFACEnter: <<i, state>> where the walk stops
RECURSIVE EnterWalk(_, _, _, _)
EnterWalk(T, pattern, i, state) ==
    IF i < Len(pattern) /\ T.goto_table[state + 1][pattern[i + 1]] # SC_PFAC_FAIL
    THEN EnterWalk(T, pattern, i + 1, T.goto_table[state + 1][pattern[i + 1]])
    ELSE <<i, state>>

\* the second loop of SCPFACEnter: <<T, state>> after the suffix is added
RECURSIVE EnterAdd(_, _, _, _)
EnterAdd(T, pattern, p, state) ==
    IF p < Len(pattern)
    THEN LET newstate == T.state_count
             T1 == SCPFACInitNewState(T)
             T2 == [T1 EXCEPT !.goto_table[state + 1][pattern[p + 1]] = newstate]
         IN  EnterAdd(T2, pattern, p + 1, newstate)
    ELSE <<T, state>>

SCPFACEnter(T, pattern, pid) ==
    LET w == EnterWalk(T, pattern, 0, 0)
        a == EnterAdd(T, pattern, w[1], w[2])
    IN  SCPFACSetOutputState(a[1], a[2], pid)

\* the patterns entered with the bytes the caller gave, not folded
RECURSIVE EnterAllOriginal(_, _, _)
EnterAllOriginal(T, pa, i) ==
    IF i > Len(pa) THEN T
    ELSE EnterAllOriginal(SCPFACEnter(T, pa[i].original_pat, pa[i].id), pa, i + 1)

RECURSIVE EnterAll(_, _, _)
EnterAll(T, pa, i) ==
    IF i > Len(pa) THEN T
    ELSE EnterAll(SCPFACEnter(T, pa[i].ci, pa[i].id), pa, i + 1)

SCPFACCreateGotoTable(T, pa) ==
    LET T1 == EnterAll(T, pa, 1)
    IN  [T1 EXCEPT !.goto_table[1] =
            [b \in Bytes |-> IF @[b] = SC_PFAC_FAIL THEN 0 ELSE @[b]]]

\* one child of the root per first byte, in increasing byte order
RECURSIVE Level1Gap(_, _, _)
Level1Gap(T, map, u) ==
    IF u > Len(AsciiCodes) THEN T
    ELSE IF AsciiCodes[u] \notin map THEN Level1Gap(T, map, u + 1)
    ELSE LET newstate == T.state_count
             T1 == SCPFACInitNewState(T)
         IN  Level1Gap([T1 EXCEPT !.goto_table[1][AsciiCodes[u]] = newstate], map, u + 1)

\* a pass that creates a child of the root for every byte value
DetermineLevel1GapEveryByte(T, pa) == Level1Gap(T, Bytes, 1)

SCPFACDetermineLevel1Gap(T, pa) ==
    Level1Gap(T, {pa[u].ci[1] : u \in 1..Len(pa)}, 1)

(***************************************************************************)
(* The state queue of the breadth first passes: [store, top, bot, fatal,   *)
(* size].  store holds the slots written so far, slot k at store[k + 1]; a *)
(* slot never written reads 0 (the memset).  fatal is set where the code   *)
(* exits the process.  size is the number of slots of store, in the code   *)
(* STATE_QUEUE_CONTAINER_SIZE.  The record also keeps a trace: pending     *)
(* (the states enqueued and not yet dequeued), maxpending (the most there  *)
(* were), enqueued (how many were stored in all) and done (the states      *)
(* SCPFACDequeue returned, in order).                                      *)
(***************************************************************************)
EmptyQueue(size) ==
    [store |-> <<>>, top |-> 0, bot |-> 0, fatal |-> FALSE, size |-> size,
     pending |-> 0, maxpending |-> 0, enqueued |-> 0, done |-> <<>>]

QueueSlot(q, i) == IF i < Len(q.store) THEN q.store[i + 1] ELSE 0

SCPFACStateQueueIsEmpty(q) == q.top = q.bot

SCPFACEnqueue(q, state) ==
    IF \E i \in q.bot..(q.top - 1) : QueueSlot(q, i) = state THEN q
    ELSE LET st == IF q.top < Len(q.store)
                   THEN [q.store EXCEPT ![q.top + 1] = state]
                   ELSE Append(q.store, state)
             t1 == q.top + 1
             t2 == IF t1 = q.size THEN 0 ELSE t1
         IN  [q EXCEPT !.store = st, !.top = t2,
                       !.fatal = q.fatal \/ t2 = q.bot,
                       !.pending = @ + 1,
                       !.maxpending = IF q.pending + 1 > @ THEN q.pending + 1 ELSE @,
                       !.enqueued = @ + 1]

\* <<queue after the call, state returned>>
SCPFACDequeue(q) ==
    LET b == IF q.bot = q.size THEN 0 ELSE q.bot
    IN  IF b = q.top
        THEN <<[q EXCEPT !.bot = b, !.fatal = TRUE], 0>>
        ELSE <<[q EXCEPT !.bot = b + 1, !.pending = @ - 1,
                         !.done = Append(@, QueueSlot(q, b))], QueueSlot(q, b)>>

\* the two queues hold the same store, top and bot
SameRing(q1, q2) == q1.store = q2.store /\ q1.top = q2.top /\ q1.bot = q2.bot

(***************************************************************************)
(* Delta table.                                                            *)
(***************************************************************************)
\* row 0 is copied from the goto table and its non-zero cells are enqueued
RECURSIVE DeltaRoot(_, _, _, _)
DeltaRoot(tbl, q, gt, a) ==
    IF a > Len(AsciiCodes) THEN <<tbl, q>>
    ELSE LET temp_state == gt[1][AsciiCodes[a]] % SC_PFAC_STATE_TYPE_U16_RANGE
         IN  DeltaRoot([tbl EXCEPT ![1][AsciiCodes[a]] = temp_state],
                       IF temp_state # 0 THEN SCPFACEnqueue(q, temp_state) ELSE q,
                       gt, a + 1)

\* row r_state takes the goto transitions that are not FAIL; a FAIL cell keeps
\* the 0 of the memset (the copy from the failure state's row is commented out)
RECURSIVE DeltaRow(_, _, _, _, _)
DeltaRow(tbl, q, gt, r_state, a) ==
    IF a > Len(AsciiCodes) THEN <<tbl, q>>
    ELSE LET temp_state == gt[r_state + 1][AsciiCodes[a]]
         IN  IF temp_state # SC_PFAC_FAIL
             THEN DeltaRow([tbl EXCEPT ![r_state + 1][AsciiCodes[a]] =
                                temp_state % SC_PFAC_STATE_TYPE_U16_RANGE],
                           SCPFACEnqueue(q, temp_state), gt, r_state, a + 1)
             ELSE DeltaRow(tbl, q, gt, r_state, a + 1)

RECURSIVE DeltaLoop(_, _, _)
DeltaLoop(tbl, q, gt) ==
    IF q.fatal \/ SCPFACStateQueueIsEmpty(q) THEN <<tbl, q>>
    ELSE LET d == SCPFACDequeue(q)
         IN  IF d[1].fatal THEN <<tbl, d[1]>>
             ELSE LET r == DeltaRow(tbl, d[1], gt, d[2], 1)
                  IN  DeltaLoop(r[1], r[2], gt)

\* <<state_table_u16, queue at the end>>.  With U16_STATE_LIMIT states or more the
\* code builds state_table_u32 instead and state_table_u16 stays NULL; no context
\* of this model has that many states.
SCPFACCreateDeltaTable(T, size) ==
    IF T.state_count < U16_STATE_LIMIT
    THEN LET zero == [s \in 1..T.state_count |-> [b \in Bytes |-> 0]]
             root == DeltaRoot(zero, EmptyQueue(size), T.goto_table, 1)
         IN  DeltaLoop(root[1], root[2], T.goto_table)
    ELSE <<<<>>, EmptyQueue(size)>>

\* <<state_table_u32, queue at the end>>: the second block of the function, the
\* same two passes with cells of 32 bits.  The code runs it with U16_STATE_LIMIT
\* states or more, or with construct_both_16_and_32_state_tables set; a state
\* number is stored in a cell as it is.
SCPFACCreateDeltaTableU32(T) ==
    LET zero == [s \in 1..T.state_count |-> [b \in Bytes |-> 0]]
        root == DeltaRoot(zero, EmptyQueue(STATE_QUEUE_CONTAINER_SIZE), T.goto_table, 1)
    IN  DeltaLoop(root[1], root[2], T.goto_table)

\* the delta table left without any output presence bit
ClubOutputStatePresenceSkipped(tbl, out) == tbl

\* the presence recorded in bit 14 (STATE_BIT_U16 \div 2) instead of bit 15
ClubOutputStatePresenceBit14(tbl, out) ==
    [s \in 1..Len(tbl) |->
        [b \in Bytes |->
            IF Len(out[(tbl[s][b] % STATE_BIT_U16) + 1]) # 0
            THEN tbl[s][b] + (STATE_BIT_U16 \div 2)
            ELSE tbl[s][b]]]

SCPFACClubOutputStatePresenceWithDeltaTable(tbl, out) ==
    [s \in 1..Len(tbl) |->
        [b \in Bytes |->
            IF Len(out[(tbl[s][b] % STATE_BIT_U16) + 1]) # 0
            THEN (IF (tbl[s][b] \div STATE_BIT_U16) % 2 = 1
                  THEN tbl[s][b] ELSE tbl[s][b] + STATE_BIT_U16)
            ELSE tbl[s][b]]]

\* the second block of the function: "|= (1 << 24)" on the cells of the 32 bit
\* table whose state, under the mask 0x00FFFFFF, has an output row with entries
SCPFACClubOutputStatePresenceWithDeltaTableU32(tbl, out) ==
    [s \in 1..Len(tbl) |->
        [b \in Bytes |->
            IF Len(out[(tbl[s][b] % STATE_BIT_U32) + 1]) # 0
            THEN (IF (tbl[s][b] \div STATE_BIT_U32) % 2 = 1
                  THEN tbl[s][b] ELSE tbl[s][b] + STATE_BIT_U32)
            ELSE tbl[s][b]]]

\* an entry of pid_pat_list as the memset leaves it: cs NULL, patlen 0
ZeroPatternList == [cs |-> <<>>, patlen |-> 0]

\* pid_pat_list[id]
PidPatEntry(ppl, id) == IF id \in DOMAIN ppl.filled THEN ppl.filled[id] ELSE ZeroPatternList

SCPFACInsertCaseSensitiveEntriesForPatterns(out, ppl) ==
    [s \in 1..Len(out) |->
        [k \in 1..Len(out[s]) |->
            IF PidPatEntry(ppl, out[s][k]).cs # <<>>
            THEN (out[s][k] % PID_VERIFY_BIT) + PID_VERIFY_BIT
            ELSE out[s][k]]]

\* a structure that is not freed: the pointer keeps its value
SCFreeSkipped(x) == x

\* "SCFree(x); x = NULL": the value of the pointer afterwards
SCFreeAndNull(x) == <<>>

\* <<state_table_u16, output_table, state_count, fatal, goto_table>>, with a
\* state queue of size slots
SCPFACPrepareStateTable(pa, ppl, size) ==
    LET T0 == SCPFACInitNewState(NoTables)
        T1 == SCPFACDetermineLevel1Gap(T0, pa)
        T2 == SCPFACCreateGotoTable(T1, pa)
        d  == SCPFACCreateDeltaTable(T2, size)
    IN  IF d[2].fatal THEN <<<<>>, <<>>, T2.state_count, TRUE, T2.goto_table>>
        ELSE <<SCPFACClubOutputStatePresenceWithDeltaTable(d[1], T2.output_table),
               SCPFACInsertCaseSensitiveEntriesForPatterns(T2.output_table, ppl),
               T2.state_count, FALSE, SCFreeAndNull(T2.goto_table)>>

\* the 32 bit table SCPFACPrepareStateTable builds from pa when it takes the
\* second blocks of SCPFACCreateDeltaTable and of
\* SCPFACClubOutputStatePresenceWithDeltaTable
StateTableU32(pa) ==
    LET T0 == SCPFACInitNewState(NoTables)
        T1 == SCPFACDetermineLevel1Gap(T0, pa)
        T2 == SCPFACCreateGotoTable(T1, pa)
        d  == SCPFACCreateDeltaTableU32(T2)
    IN  SCPFACClubOutputStatePresenceWithDeltaTableU32(d[1], T2.output_table)

\* the state queue as SCPFACCreateDeltaTable leaves it, when SCPFACPrepareStateTable
\* runs on pa with a queue of size slots
DeltaQueue(pa, size) ==
    LET T0 == SCPFACInitNewState(NoTables)
        T1 == SCPFACDetermineLevel1Gap(T0, pa)
        T2 == SCPFACCreateGotoTable(T1, pa)
    IN  SCPFACCreateDeltaTable(T2, size)[2]

\* parray: the buckets of init_hash in increasing order, each chain from its head
RECURSIVE ParrayOf(_)
ParrayOf(chain) ==
    IF chain = <<>> THEN <<>>
    ELSE LET m == CHOOSE h \in {SCPFACInitHash(chain[n]) : n \in 1..Len(chain)} :
                      \A n \in 1..Len(chain) : h <= SCPFACInitHash(chain[n])
         IN  SelectSeq(chain, LAMBDA x : SCPFACInitHash(x) = m)
                 \o ParrayOf(SelectSeq(chain, LAMBDA x : SCPFACInitHash(x) # m))

\* pid_pat_list: max_pat_id + 1 entries, zeroed, then the entry of every pattern
\* without the NOCASE flag is filled, in parray order
RECURSIVE PidPatList(_, _, _)
PidPatList(ppl, pa, i) ==
    IF i > Len(pa) THEN ppl
    ELSE IF ~NoCase(pa[i].flags)
         THEN PidPatList([ppl EXCEPT !.filled =
                              (pa[i].id :> [cs |-> pa[i].original_pat, patlen |-> pa[i].len])
                                  @@ @],
                         pa, i + 1)
         ELSE PidPatList(ppl, pa, i + 1)

\* the context fields SCPFACPreparePatterns writes, from the store c, with a
\* state queue of size slots
PreparePatternsSized(c, size) ==
    IF c.pattern_cnt = 0 \/ c.init_hash = <<>>
    THEN [ret |-> 0, exited |-> FALSE, init_hash |-> c.init_hash, state_count |-> 0,
          state_table_u16 |-> <<>>, output_table |-> <<>>, pid_pat_list |-> <<>>,
          goto_table |-> <<>>, parray |-> <<>>]
    ELSE LET pa == ParrayOf(c.init_hash[1])
             ppl == PidPatList([size |-> c.max_pat_id + 1, filled |-> <<>>], pa, 1)
             t == SCPFACPrepareStateTable(pa, ppl, size)
         IN  [ret |-> 0, exited |-> t[4], init_hash |-> SCFreeAndNull(c.init_hash),
              state_count |-> t[3],
              state_table_u16 |-> t[1], output_table |-> t[2], pid_pat_list |-> ppl,
              goto_table |-> t[5],
              parray |-> IF t[4] THEN pa ELSE SCFreeAndNull(pa)]

\* the same with the state queue of the program
PreparePatterns(c) == PreparePatternsSized(c, STATE_QUEUE_CONTAINER_SIZE)

(***************************************************************************)
(* The width of the cells, one cell and one state count at a time.         *)
(***************************************************************************)
\* SCPFACCreateDeltaTable and SCPFACClubOutputStatePresenceWithDeltaTable run
\* their first block, on state_table_u16, for this state count
BuildsTableU16(sc) == sc < U16_STATE_LIMIT \/ construct_both_16_and_32_state_tables

\* and their second block, on state_table_u32
BuildsTableU32(sc) == ~(sc < U16_STATE_LIMIT) \/ construct_both_16_and_32_state_tables

\* a scan that takes the 16 bit branch for one state count more
SearchReadsU16Inclusive(sc) == sc <= U16_STATE_LIMIT

\* SCPFACSearch takes its first branch, which reads state_table_u16
SearchReadsU16(sc) == sc < U16_STATE_LIMIT

\* the cell of the 16 bit table for a goto transition to state temp_state whose
\* output row has entries (has_output) or none: the store into the uint16_t,
\* then "|= (1 << 15)" under the test of the row of "temp_state & 0x7FFF"
ClubCellU16(temp_state, has_output) ==
    LET cell == temp_state % SC_PFAC_STATE_TYPE_U16_RANGE
    IN  IF has_output[cell % STATE_BIT_U16]
        THEN (IF (cell \div STATE_BIT_U16) % 2 = 1 THEN cell ELSE cell + STATE_BIT_U16)
        ELSE cell

\* the same for the 32 bit table: "|= (1 << 24)", the row of "temp_state & 0x00FFFFFF"
ClubCellU32(temp_state, has_output) ==
    IF has_output[temp_state % STATE_BIT_U32]
    THEN (IF (temp_state \div STATE_BIT_U32) % 2 = 1
          THEN temp_state ELSE temp_state + STATE_BIT_U32)
    ELSE temp_state

\* the next state a cell decodes to, and its output presence bit
CellState(cell) == cell % STATE_BIT_U16
CellBit(cell) == (cell \div STATE_BIT_U16) % 2 = 1

\* the 32 bit branch of the scan: "state & 0x00FFFFFF", "state & 0xFF000000"
CellStateU32(cell) == cell % STATE_BIT_U32
CellBitU32(cell) == cell \div STATE_BIT_U32 # 0

\* SCPFACInitNewState with sc states: "int size = (state_count + 1) *
\* single_state_size" is computed in 32 bits, and SCRealloc returns NULL for
\* the size_t of a negative int, which is more than any object can have.  The
\* product modulo 1 << 32 is 1 << 31 or more when (sc + 1) modulo
\* (1 << 32) / SINGLE_STATE_SIZE is at least (1 << 31) / SINGLE_STATE_SIZE.
GotoTableReallocFails(sc) ==
    (sc + 1) % (4 * (HALF_RANGE \div SINGLE_STATE_SIZE) * (HALF_RANGE \div 4))
        >= 2 * (HALF_RANGE \div SINGLE_STATE_SIZE) * (HALF_RANGE \div 4)

(***************************************************************************)
(* Memory.  M is the record [memory_cnt, memory_size, heap]: the two       *)
(* counters of the MpmCtx, uint32_t both, and the blocks that are          *)
(* allocated and not freed, each <<what it is, a number, a number>>.  A    *)
(* uint32_t is the pair <<high half, low half>> of its 16 bit halves, so   *)
(* that the arithmetic modulo 1 << 32 is exact.                            *)
(***************************************************************************)
\* the uint32_t of value n, for n from 0 below 1 << 31
U32(n) == <<n \div HALF_RANGE, n % HALF_RANGE>>

\* x + d in a uint32_t, for d of either sign
U32Add(x, d) ==
    <<(x[1] + ((x[2] + d) \div HALF_RANGE)) % HALF_RANGE, (x[2] + d) % HALF_RANGE>>

Memory(cnt, size, h) == [memory_cnt |-> cnt, memory_size |-> size, heap |-> h]

\* SCMalloc or the first SCRealloc of block b, "memory_cnt++" and
\* "memory_size += size" with it
Counted(M, b, size) ==
    Memory(U32Add(M.memory_cnt, 1), U32Add(M.memory_size, size), M.heap \cup {b})

\* SCMalloc or the first SCRealloc of block b, the counters left alone
Uncounted(M, b) == [M EXCEPT !.heap = @ \cup {b}]

\* SCFree of block b, "memory_cnt--" and "memory_size -= size" with it
Discounted(M, b, size) ==
    Memory(U32Add(M.memory_cnt, -1), U32Add(M.memory_size, -size), M.heap \ {b})

\* SCFree of block b, the counters left alone
Freed(M, b) == [M EXCEPT !.heap = @ \ {b}]

\* the MpmCtx of the caller before SCPFACInitCtx: zeroed
NoMemory == Memory(U32(0), U32(0), {})

\* SCPFACInitCtx: the context is counted, the hash is not
InitCtxMemory(M) ==
    Uncounted(Counted(M, <<"ctx", 0, 0>>, SIZEOF_SCPFACCtx), <<"init_hash", 0, 0>>)

\* SCPFACAllocPattern and the SCMallocs of SCPFACAddPattern for p, the n-th
\* pattern allocated
AllocPatternMemory(M, p, n) ==
    LET M1 == Counted(M, <<"SCPFACPattern", n, 0>>, SIZEOF_SCPFACPattern)
        M2 == Counted(M1, <<"original_pat", n, 0>>, p.len)
        M3 == Counted(M2, <<"ci", n, 0>>, p.len)
    IN  IF p.cs # p.ci THEN Counted(M3, <<"cs", n, 0>>, p.len) ELSE M3

\* SCPFACFreePattern for p, the n-th pattern allocated
SCPFACFreePattern(M, p, n) ==
    LET M1 == IF p.cs # p.ci THEN Discounted(M, <<"cs", n, 0>>, p.len) ELSE M
        M2 == Discounted(M1, <<"ci", n, 0>>, p.len)
        M3 == Discounted(M2, <<"original_pat", n, 0>>, p.len)
    IN  Discounted(M3, <<"SCPFACPattern", n, 0>>, SIZEOF_SCPFACPattern)

\* the memory after a call of SCPFACAddPattern on the store c
AddPatternMemory(M, c, pat, patlen, pid, flags) ==
    IF patlen = 0 THEN M
    ELSE IF SCPFACInitHashLookup(c.init_hash, pat, patlen, pid) THEN M
    ELSE AllocPatternMemory(M, NewPattern(pat, patlen, pid, flags), c.pattern_cnt + 1)

\* the patterns of chain freed in turn; chain[n] is the n-th pattern allocated
RECURSIVE FreePatterns(_, _, _)
FreePatterns(M, chain, n) ==
    IF n > Len(chain) THEN M
    ELSE FreePatterns(SCPFACFreePattern(M, chain[n], n), chain, n + 1)

\* the "pids" arrays SCPFACSetOutputState allocated: one per state with an entry
PidsBlocks(out) == {<<"pids", s - 1, 0>> : s \in {t \in 1..Len(out) : Len(out[t]) # 0}}

\* the copies "pid_pat_list[id].cs = SCMalloc(len)" made for pa[1..i]: the k-th
\* made for an id is <<"pid_pat_list.cs", id, k>>
CsCopies(pa, i) ==
    {<<"pid_pat_list.cs", pa[n].id,
       Cardinality({m \in 1..n : pa[m].id = pa[n].id /\ ~NoCase(pa[m].flags)})>> :
        n \in {m \in 1..i : ~NoCase(pa[m].flags)}}

\* the copies the entries of pid_pat_list point to: the last made for each id
CsCopiesHeld(h, ppl) ==
    {b \in h : /\ b[1] = "pid_pat_list.cs"
               /\ b[2] \in DOMAIN ppl.filled
               /\ \A b2 \in h : (b2[1] = b[1] /\ b2[2] = b[2]) => b2[3] <= b[3]}

\* the memory after the call of SCPFACPreparePatterns on the store c that built
\* r: nothing on the early return; the process is gone when the call exits
PreparePatternsMemory(M, c, r) ==
    IF c.pattern_cnt = 0 \/ c.init_hash = <<>> \/ r.exited THEN M
    ELSE LET pa == ParrayOf(c.init_hash[1])
             M1 == Counted(M, <<"parray", 0, 0>>, c.pattern_cnt * SIZEOF_POINTER)
             M2 == Freed(M1, <<"init_hash", 0, 0>>)
             M3 == [Uncounted(M2, <<"pid_pat_list", 0, 0>>) EXCEPT
                        !.heap = @ \cup CsCopies(pa, Len(pa))]
             \* SCPFACPrepareStateTable: the goto table is allocated and freed
             M4 == [Uncounted(M3, <<"output_table", 0, 0>>) EXCEPT
                        !.heap = @ \cup PidsBlocks(r.output_table)]
             M5 == IF r.state_count < U16_STATE_LIMIT \/ construct_both_16_and_32_state_tables
                   THEN Counted(M4, <<"state_table_u16", 0, 0>>, r.state_count * ROW_SIZE_U16)
                   ELSE M4
             M6 == IF ~(r.state_count < U16_STATE_LIMIT) \/ construct_both_16_and_32_state_tables
                   THEN Counted(M5, <<"state_table_u32", 0, 0>>, r.state_count * ROW_SIZE_U32)
                   ELSE M5
             M7 == FreePatterns(M6, c.init_hash[1], 1)
         IN  Discounted(M7, <<"parray", 0, 0>>, c.pattern_cnt * SIZEOF_POINTER)

\* the memory after SCPFACDestroyCtx on the context X: [init_hash, parray,
\* pattern_cnt, state_count, state_table_u16, output_table, pid_pat_list].  The
\* model has no context with a parray at the call (prepare frees it) and none
\* with a state_table_u32.
DestroyCtxMemory(M, X) ==
    LET M1 == IF X.init_hash # <<>>
              THEN Discounted(M, <<"init_hash", 0, 0>>, INIT_HASH_SIZE * SIZEOF_POINTER)
              ELSE M
        M2 == IF X.parray # <<>>
              THEN Discounted(FreePatterns(M1, X.parray, 1), <<"parray", 0, 0>>,
                              X.pattern_cnt * SIZEOF_POINTER)
              ELSE M1
        \* "memory_cnt++" where the table is freed
        M3 == IF X.state_table_u16 # <<>>
              THEN Memory(U32Add(M2.memory_cnt, 1),
                          U32Add(M2.memory_size, -(X.state_count * ROW_SIZE_U16)),
                          M2.heap \ {<<"state_table_u16", 0, 0>>})
              ELSE M2
        M4 == IF X.output_table # <<>>
              THEN [M3 EXCEPT !.heap = (@ \ PidsBlocks(X.output_table))
                                           \ {<<"output_table", 0, 0>>}]
              ELSE M3
        M5 == IF X.pid_pat_list # <<>>
              THEN [M4 EXCEPT !.heap = (@ \ CsCopiesHeld(M4.heap, X.pid_pat_list))
                                           \ {<<"pid_pat_list", 0, 0>>}]
              ELSE M4
    IN  Discounted(M5, <<"ctx", 0, 0>>, SIZEOF_SCPFACCtx)

EmptyPmq == [pattern_id_bitarray |-> {}, pattern_id_array |-> <<>>, pattern_id_array_cnt |-> 0]

(***************************************************************************)
(* The scan.  C is the compiled context [state_count, state_table_u16,     *)
(* output_table, pid_pat_list].  The scan's running values are a record:   *)
(* pmq (the sink), matches, and the trace of the call: hits (the cells     *)
(* with the output bit, as [i, j, state]), log (the pids that passed their *)
(* test, as [pid, verify, i, j, new]), starts (the state each walk began   *)
(* in, as [i, state]) and oob (a byte outside the buffer was read).  pre   *)
(* is the memory right before the buffer, which the scan reads when a      *)
(* verification window starts before the buffer.                           *)
(***************************************************************************)
Compiled(sc, tbl, out, ppl) ==
    [state_count |-> sc, state_table_u16 |-> tbl, output_table |-> out, pid_pat_list |-> ppl]

\* the byte at buf + idx, for idx < 0 the memory before the buffer
ByteAt(buf, pre, idx) == IF idx >= 0 THEN buf[idx + 1] ELSE pre[Len(pre) + idx + 1]

\* the len bytes at buf + start
Window(buf, pre, start, len) == [m \in 1..len |-> ByteAt(buf, pre, start + m - 1)]

\* a record step without the test of the bit
PmqRecordNoBitTest(q, pid) ==
    [pattern_id_bitarray |-> q.pattern_id_bitarray \cup {pid},
     pattern_id_array |-> Append(SubSeq(q.pattern_id_array, 1, q.pattern_id_array_cnt), pid),
     pattern_id_array_cnt |-> q.pattern_id_array_cnt + 1]

\* a record step that writes a new pid to the start of pattern_id_array
PmqRecordRestarts(q, pid) ==
    IF pid \in q.pattern_id_bitarray THEN q
    ELSE [pattern_id_bitarray |-> q.pattern_id_bitarray \cup {pid},
          pattern_id_array |-> <<pid>>,
          pattern_id_array_cnt |-> 1]

\* the test of the bit, then the bit and the append to pattern_id_array
PmqRecord(q, pid) ==
    IF pid \in q.pattern_id_bitarray THEN q
    ELSE [pattern_id_bitarray |-> q.pattern_id_bitarray \cup {pid},
          pattern_id_array |-> Append(SubSeq(q.pattern_id_array, 1, q.pattern_id_array_cnt), pid),
          pattern_id_array_cnt |-> q.pattern_id_array_cnt + 1]

\* the bytes SCMemcmp is given for a pid with the verify bit: the window of
\* patlen bytes at buf + i - patlen + 1
VerifyWindow(ppl, id, buf, pre, i) ==
    Window(buf, pre, i - PidPatEntry(ppl, id).patlen + 1, PidPatEntry(ppl, id).patlen)

Accept(acc, id, verify, i, j) ==
    [acc EXCEPT !.pmq = PmqRecord(@, id),
                !.log = Append(@, [pid |-> id, verify |-> verify, i |-> i, j |-> j,
                                   new |-> id \notin acc.pmq.pattern_id_bitarray])]

\* "for (k = 0; k < no_of_entries; k++)" over the row pids of a matching state
RECURSIVE OutputLoop(_, _, _, _, _, _, _, _)
OutputLoop(acc, ppl, pids, k, buf, pre, i, j) ==
    IF k > Len(pids) THEN acc
    ELSE IF pids[k] \div PID_VERIFY_BIT # 0
         THEN LET id == pids[k] % PID_VERIFY_BIT
                  a1 == [acc EXCEPT !.oob = @ \/ i - PidPatEntry(ppl, id).patlen + 1 < 0]
              IN  IF SCMemcmp(PidPatEntry(ppl, id).cs, VerifyWindow(ppl, id, buf, pre, i)) # 0
                  THEN a1
                  ELSE OutputLoop(Accept(a1, id, TRUE, i, j), ppl, pids, k + 1, buf, pre, i, j)
         ELSE OutputLoop(Accept(acc, pids[k], FALSE, i, j), ppl, pids, k + 1, buf, pre, i, j)

\* a table lookup on the byte as it is in the buffer
SearchNextStateNoFold(tbl, state, c) == tbl[(state % STATE_BIT_U16) + 1][c]

\* the cell the scan moves to from state on byte c
SearchNextState(tbl, state, c) == tbl[(state % STATE_BIT_U16) + 1][u8_tolower(c)]

\* the two nested loops; state is declared outside both and keeps its value
\* from one i to the next
RECURSIVE SearchLoop(_, _, _, _, _, _, _)
SearchLoop(C, acc, buf, pre, i, j, state) ==
    IF i >= Len(buf) THEN acc
    ELSE IF j >= Len(buf) THEN SearchLoop(C, acc, buf, pre, i + 1, i + 1, state)
    ELSE LET next == SearchNextState(C.state_table_u16, state, buf[j + 1])
             a0 == IF j = i
                   THEN [acc EXCEPT !.starts = Append(@, [i |-> i, state |-> state % STATE_BIT_U16])]
                   ELSE acc
         IN  IF next = 0 THEN SearchLoop(C, a0, buf, pre, i + 1, i + 1, next)
             ELSE IF (next \div STATE_BIT_U16) % 2 = 1
             THEN LET a1 == [a0 EXCEPT !.matches = @ + 1,
                                        !.hits = Append(@, [i |-> i, j |-> j,
                                                            state |-> next % STATE_BIT_U16])]
                      a2 == OutputLoop(a1, C.pid_pat_list,
                                       C.output_table[(next % STATE_BIT_U16) + 1],
                                       1, buf, pre, i, j)
                  IN  SearchLoop(C, a2, buf, pre, i, j + 1, next)
             ELSE SearchLoop(C, a0, buf, pre, i, j + 1, next)

\* the loop over the row pids in the 32 bit branch: matches++ after every pid
\* that passed its test
RECURSIVE OutputLoopU32(_, _, _, _, _, _, _, _)
OutputLoopU32(acc, ppl, pids, k, buf, pre, i, j) ==
    IF k > Len(pids) THEN acc
    ELSE IF pids[k] \div PID_VERIFY_BIT # 0
         THEN LET id == pids[k] % PID_VERIFY_BIT
                  a1 == [acc EXCEPT !.oob = @ \/ i - PidPatEntry(ppl, id).patlen + 1 < 0]
              IN  IF SCMemcmp(PidPatEntry(ppl, id).cs, VerifyWindow(ppl, id, buf, pre, i)) # 0
                  THEN a1
                  ELSE OutputLoopU32([Accept(a1, id, TRUE, i, j) EXCEPT !.matches = @ + 1],
                                     ppl, pids, k + 1, buf, pre, i, j)
         ELSE OutputLoopU32([Accept(acc, pids[k], FALSE, i, j) EXCEPT !.matches = @ + 1],
                            ppl, pids, k + 1, buf, pre, i, j)

\* the two nested loops of the 32 bit branch: the table is read with buf[i], the
\* byte at the start offset, for every j; there is no break on state 0
RECURSIVE SearchLoopU32(_, _, _, _, _, _, _, _)
SearchLoopU32(tbl, C, acc, buf, pre, i, j, state) ==
    IF i >= Len(buf) THEN acc
    ELSE IF j >= Len(buf) THEN SearchLoopU32(tbl, C, acc, buf, pre, i + 1, i + 1, state)
    ELSE LET next == tbl[(state % STATE_BIT_U32) + 1][u8_tolower(buf[i + 1])]
         IN  IF next \div STATE_BIT_U32 # 0
             THEN LET a1 == [acc EXCEPT !.hits = Append(@, [i |-> i, j |-> j,
                                                            state |-> next % STATE_BIT_U32])]
                      a2 == OutputLoopU32(a1, C.pid_pat_list,
                                          C.output_table[(next % STATE_BIT_U32) + 1],
                                          1, buf, pre, i, j)
                  IN  SearchLoopU32(tbl, C, a2, buf, pre, i, j + 1, next)
             ELSE SearchLoopU32(tbl, C, acc, buf, pre, i, j + 1, next)

StartScan(q) == [pmq |-> q, matches |-> 0, hits |-> <<>>, log |-> <<>>, oob |-> FALSE,
                 fault |-> FALSE, starts |-> <<>>]

\* the 32 bit branch of SCPFACSearch on the 32 bit table tbl and the output
\* table and pid_pat_list of C
SCPFACSearchU32(tbl, C, q, buf, pre) ==
    SearchLoopU32(tbl, C, StartScan(q), buf, pre, 0, 0, 0)

\* a scan that reads the table before it tests the length of the buffer
SCPFACSearchReadsFirst(C, q, buf, pre) ==
    IF C.state_table_u16 = <<>> THEN [StartScan(q) EXCEPT !.fault = TRUE]
    ELSE SearchLoop(C, StartScan(q), buf, pre, 0, 0, 0)

\* the 16 bit branch.  With a NULL state_table_u16 (prepare returned early: no
\* pattern) the first read of the table is a read through a null pointer.
SCPFACSearch(C, q, buf, pre) ==
    IF Len(buf) = 0 THEN StartScan(q)
    ELSE IF C.state_table_u16 = <<>> THEN [StartScan(q) EXCEPT !.fault = TRUE]
    ELSE SearchLoop(C, StartScan(q), buf, pre, 0, 0, 0)

\* what the memory before the buffer may hold: a window is at most MaxPatLen bytes
\* and ends inside the buffer, so it starts at most MaxPatLen - 1 bytes before it
PreInputs == {s \in SeqsUpTo(Bytes, MaxPatLen - 1) : Len(s) = MaxPatLen - 1}
SmallPreInputs == {s \in SeqsUpTo(SmallBytes, SmallPatLen - 1) : Len(s) = SmallPatLen - 1}
LongPreInputs == {s \in SeqsUpTo(LongBytes, LongPatLen - 1) : Len(s) = LongPatLen - 1}

CurrentCompiled == Compiled(state_count, state_table_u16, output_table, pid_pat_list)

CurrentMemory == Memory(memory_cnt, memory_size, heap)

\* a thread that has not called SCPFACSearch
IdleScanner == [pc |-> "idle", buf |-> <<>>, pre |-> <<>>, i |-> 0, j |-> 0, state |-> 0,
                matches |-> 0, hits |-> <<>>, log |-> <<>>, oob |-> FALSE, fault |-> FALSE]

\* one sink passed by every thread
SinkShared(t) == 1

\* the sink thread t passes to SCPFACSearch: its own
SinkOf(t) == t

\* one step of a call of SCPFACSearch with locals L and sink q: one pass through
\* the body of the inner loop, or the end of a loop.  [L, pmq] after the step.
SearchStepOf(C, L, q, pre) ==
    IF L.i >= Len(L.buf) THEN [L |-> [L EXCEPT !.pc = "done"], pmq |-> q]
    ELSE IF C.state_table_u16 = <<>>
    THEN [L |-> [L EXCEPT !.pc = "done", !.fault = TRUE], pmq |-> q]
    ELSE IF L.j >= Len(L.buf) THEN [L |-> [L EXCEPT !.i = @ + 1, !.j = L.i + 1], pmq |-> q]
    ELSE LET next == SearchNextState(C.state_table_u16, L.state, L.buf[L.j + 1])
         IN  IF next = 0
             THEN [L |-> [L EXCEPT !.i = @ + 1, !.j = L.i + 1, !.state = next], pmq |-> q]
             ELSE IF (next \div STATE_BIT_U16) % 2 = 1
             THEN LET a1 == [pmq |-> q, matches |-> L.matches + 1,
                             hits |-> Append(L.hits, [i |-> L.i, j |-> L.j,
                                                      state |-> next % STATE_BIT_U16]),
                             log |-> L.log, oob |-> FALSE, fault |-> FALSE]
                      a2 == OutputLoop(a1, C.pid_pat_list,
                                       C.output_table[(next % STATE_BIT_U16) + 1],
                                       1, L.buf, pre, L.i, L.j)
                  IN  [L |-> [L EXCEPT !.j = @ + 1, !.state = next, !.matches = a2.matches,
                                       !.hits = a2.hits, !.log = a2.log,
                                       !.oob = @ \/ a2.oob,
                                       !.pre = IF a2.oob THEN pre ELSE @],
                       pmq |-> a2.pmq]
             ELSE [L |-> [L EXCEPT !.j = @ + 1, !.state = next], pmq |-> q]

NoScan == [called |-> FALSE, fault |-> FALSE, buf |-> <<>>, matches |-> 0,
           hits |-> <<>>, log |-> <<>>, oob |-> FALSE, pre |-> <<>>,
           before |-> EmptyPmq, count |-> 0, starts |-> <<>>]

\* the context and the caller's structures after SCPFACInitCtx
InitProgram ==
    /\ phase = "init"
    /\ calls = <<>>
    /\ late = <<>>
    /\ registered = <<>>
    /\ init_hash = InitStore.init_hash
    /\ goto_table = <<>>
    /\ parray = <<>>
    /\ pattern_cnt = 0
    /\ minlen = 0
    /\ maxlen = 0
    /\ max_pat_id = 0
    /\ state_count = 0
    /\ state_table_u16 = <<>>
    /\ output_table = <<>>
    /\ pid_pat_list = <<>>
    /\ pmq = EmptyPmq
    /\ scan = NoScan
    /\ scanners = [t \in Scanners |-> IdleScanner]
    /\ sinks = [t \in Scanners |-> EmptyPmq]
    /\ memory_cnt = InitCtxMemory(NoMemory).memory_cnt
    /\ memory_size = InitCtxMemory(NoMemory).memory_size
    /\ heap = InitCtxMemory(NoMemory).heap
    /\ prepare_rets = <<>>

Init ==
    /\ InitProgram
    /\ squeue = NoQueue
    /\ probe = NoProbe

\* the function has no test of the caller's phase: it runs the same before and
\* after prepare, where init_hash is NULL and the new pattern is put nowhere
SCPFACAddPattern(pat, pid, flags) ==
    /\ phase \in {"init", "prepared"}
    /\ \E c \in {AddPattern(CurrentStore, pat, Len(pat), pid, flags)} :
          /\ registered' = IF c.pattern_cnt > pattern_cnt /\ init_hash # <<>>
                           THEN Append(registered, NewPattern(pat, Len(pat), pid, flags))
                           ELSE registered
          /\ init_hash' = c.init_hash
          /\ pattern_cnt' = c.pattern_cnt
          /\ minlen' = c.minlen
          /\ maxlen' = c.maxlen
          /\ max_pat_id' = c.max_pat_id
    /\ \E m \in {AddPatternMemory(CurrentMemory, CurrentStore, pat, Len(pat), pid, flags)} :
          /\ memory_cnt' = m.memory_cnt
          /\ memory_size' = m.memory_size
          /\ heap' = m.heap
    /\ IF phase = "init"
       THEN /\ calls' = Append(calls, [pat |-> pat, pid |-> pid, flags |-> flags,
                                       ret |-> AddPatternRet(Len(pat))])
            /\ late' = late
       ELSE /\ late' = Append(late, [pat |-> pat, pid |-> pid, flags |-> flags,
                                     ret |-> AddPatternRet(Len(pat))])
            /\ calls' = calls
    /\ UNCHANGED <<phase, scratchvars, state_count, state_table_u16, output_table,
                   pid_pat_list, pmq, scan, scanners, sinks, prepare_rets, unitvars>>

\* at most n register calls before prepare, with patterns of P and ids of I
RegisterFrom(P, I, n) ==
    /\ phase = "init"
    /\ Len(calls) < n
    /\ \E pat \in P, pid \in I, flags \in {0, MPM_PATTERN_FLAG_NOCASE} :
          SCPFACAddPattern(pat, pid, flags)

\* at most n register calls after prepare, with patterns of P and ids of I
RegisterLate(P, I, n) ==
    /\ phase = "prepared"
    /\ ~scan.called
    /\ Len(late) < n
    /\ \E pat \in P, pid \in I, flags \in {0, MPM_PATTERN_FLAG_NOCASE} :
          SCPFACAddPattern(pat, pid, flags)

\* a test that lets a call on a context without the hash go on
PrepareReturnsEarlyNoHashTest(c) == c.pattern_cnt = 0

\* the test at the start of SCPFACPreparePatterns, before "return 0"
PrepareReturnsEarly(c) == c.pattern_cnt = 0 \/ c.init_hash = <<>>

\* a call of SCPFACPreparePatterns, with a state queue of size slots; the
\* function tests no phase of the caller
PrepareCall(size) ==
    /\ phase \in {"init", "prepared"}
    /\ \E r \in {PreparePatternsSized(CurrentStore, size)} :
          /\ phase' = IF r.exited THEN "exited" ELSE "prepared"
          /\ init_hash' = r.init_hash
          /\ IF PrepareReturnsEarly(CurrentStore)
             THEN UNCHANGED <<tblvars, scratchvars>>
             ELSE /\ goto_table' = r.goto_table
                  /\ parray' = r.parray
                  /\ state_count' = r.state_count
                  /\ state_table_u16' = r.state_table_u16
                  /\ output_table' = r.output_table
                  /\ pid_pat_list' = r.pid_pat_list
          /\ prepare_rets' = Append(prepare_rets, r.ret)
          /\ \E m \in {PreparePatternsMemory(CurrentMemory, CurrentStore, r)} :
                /\ memory_cnt' = m.memory_cnt
                /\ memory_size' = m.memory_size
                /\ heap' = m.heap
    /\ UNCHANGED <<calls, late, registered, pattern_cnt, minlen, maxlen, max_pat_id, pmq, scan,
                   scanners, sinks, unitvars>>

\* the first call of prepare on a context
PrepareSized(size) == phase = "init" /\ PrepareCall(size)

SCPFACPreparePatterns == PrepareSized(STATE_QUEUE_CONTAINER_SIZE)

\* one more call of prepare on a context, at most n calls in all
PrepareAgain(n) ==
    /\ phase = "prepared"
    /\ Len(prepare_rets) < n
    /\ PrepareCall(STATE_QUEUE_CONTAINER_SIZE)

\* the fields of the context SCPFACDestroyCtx reads
CurrentContext ==
    [init_hash |-> init_hash, parray |-> parray, pattern_cnt |-> pattern_cnt,
     state_count |-> state_count, state_table_u16 |-> state_table_u16,
     output_table |-> output_table, pid_pat_list |-> pid_pat_list]

\* the function tests no phase of the caller; it sets to NULL the pointers of
\* the hash, of parray and of the state tables, in the context it then frees
SCPFACDestroyCtx ==
    /\ phase \in {"init", "prepared"}
    /\ phase' = "destroyed"
    /\ init_hash' = SCFreeAndNull(init_hash)
    /\ parray' = SCFreeAndNull(parray)
    /\ state_table_u16' = SCFreeAndNull(state_table_u16)
    /\ \E m \in {DestroyCtxMemory(CurrentMemory, CurrentContext)} :
          /\ memory_cnt' = m.memory_cnt
          /\ memory_size' = m.memory_size
          /\ heap' = m.heap
    /\ UNCHANGED <<calls, late, registered, goto_table, pattern_cnt, minlen, maxlen,
                   max_pat_id, state_count, output_table, pid_pat_list, pmq, scan,
                   scanners, sinks, prepare_rets, unitvars>>

\* one scan of buf into the caller's sink
Search(buf, pre) ==
    /\ phase = "prepared"
    /\ ~scan.fault
    /\ state_count < U16_STATE_LIMIT
    /\ \E r \in {SCPFACSearch(CurrentCompiled, pmq, buf, pre)} :
          /\ pmq' = r.pmq
          /\ scan' = [called |-> TRUE, fault |-> r.fault, buf |-> buf, matches |-> r.matches,
                      hits |-> r.hits, log |-> r.log, oob |-> r.oob,
                      pre |-> IF r.oob THEN pre ELSE <<>>,
                      before |-> pmq, count |-> scan.count + 1, starts |-> r.starts]
    /\ UNCHANGED <<phase, calls, late, registered, ctxvars, scratchvars, tblvars, scanners,
                   sinks, memvars, prepare_rets, unitvars>>

\* thread t calls SCPFACSearch on buf: the locals are set up
SearchEnter(t, buf) ==
    /\ phase = "prepared"
    /\ scanners[t].pc = "idle"
    /\ state_count < U16_STATE_LIMIT
    /\ scanners' = [scanners EXCEPT ![t] = [IdleScanner EXCEPT !.pc = "run", !.buf = buf]]
    /\ UNCHANGED <<phase, calls, late, registered, ctxvars, scratchvars, tblvars, pmq, scan,
                   sinks, memvars, prepare_rets, unitvars>>

\* thread t makes one step of its call; the memory before its buffer is pre, the
\* same at every read
SearchStep(t, pre) ==
    /\ scanners[t].pc = "run"
    /\ scanners[t].oob => pre = scanners[t].pre
    /\ \E r \in {SearchStepOf(CurrentCompiled, scanners[t], sinks[SinkOf(t)], pre)} :
          /\ scanners' = [scanners EXCEPT ![t] = r.L]
          /\ sinks' = [sinks EXCEPT ![SinkOf(t)] = r.pmq]
    /\ UNCHANGED <<phase, calls, late, registered, ctxvars, scratchvars, tblvars, pmq, scan,
                   memvars, prepare_rets, unitvars>>

\* everything but the probe and the queue under test
programvars == <<phase, calls, late, registered, ctxvars, scratchvars, tblvars, pmq, scan,
                 scanners, sinks, memvars, prepare_rets>>

\* the state counts the table width code is applied to: around U16_STATE_LIMIT,
\* around 1 << 16, and the last ones SCPFACInitNewState reaches
WidthStateCounts == {2, 3, 32765, 32766, 32767, 32768, 65536, 65537, 2097150, 2097151}

\* the states of a context of sc states that a cell is built for
WidthStates(sc) ==
    {s \in {0, 1, 2, 32765, 32766, 32767, 65535, 65536, 2097149, 2097150} : s < sc}

\* a context of sc states whose tables are not built yet
NewProbe(sc) ==
    [pc |-> "goto", state_count |-> sc, grown |-> FALSE, state |-> 0, out |-> FALSE,
     u16 |-> FALSE, u32 |-> FALSE, cell_u16 |-> 0, cell_u32 |-> 0,
     reads |-> "none", fault |-> FALSE, next |-> 0, bit |-> FALSE]

\* SCPFACInitNewState adds a state to the context of the probe, or exits
ProbeInitNewState ==
    /\ probe # NoProbe /\ probe.pc = "goto" /\ ~probe.grown
    /\ probe' = IF GotoTableReallocFails(probe.state_count)
                THEN [probe EXCEPT !.pc = "exited"]
                ELSE [probe EXCEPT !.state_count = @ + 1, !.grown = TRUE]
    /\ UNCHANGED <<programvars, squeue>>

\* SCPFACCreateDeltaTable and SCPFACClubOutputStatePresenceWithDeltaTable on
\* the context of the probe: the tables built and, in each, the cell of a goto
\* transition to state s, whose output row has entries or has none
ProbeCreateDeltaTable ==
    /\ probe # NoProbe /\ probe.pc = "goto"
    /\ \E s \in WidthStates(probe.state_count), out \in BOOLEAN :
          \E has_output \in {[t \in {s, s % STATE_BIT_U16, s % STATE_BIT_U32} |->
                                  t = s /\ out]} :
              probe' = [probe EXCEPT
                  !.pc = "built", !.state = s, !.out = out,
                  !.u16 = BuildsTableU16(probe.state_count),
                  !.u32 = BuildsTableU32(probe.state_count),
                  !.cell_u16 = IF BuildsTableU16(probe.state_count)
                               THEN ClubCellU16(s, has_output) ELSE 0,
                  !.cell_u32 = IF BuildsTableU32(probe.state_count)
                               THEN ClubCellU32(s, has_output) ELSE 0]
    /\ UNCHANGED <<programvars, squeue>>

\* SCPFACSearch on the context of the probe reads the cell: the table it reads,
\* and the state and the output presence it takes from the cell
ProbeSearch ==
    /\ probe # NoProbe /\ probe.pc = "built"
    /\ probe' =
          IF SearchReadsU16(probe.state_count)
          THEN [probe EXCEPT !.pc = "read", !.reads = "u16", !.fault = ~probe.u16,
                             !.next = CellState(probe.cell_u16),
                             !.bit = CellBit(probe.cell_u16)]
          ELSE [probe EXCEPT !.pc = "read", !.reads = "u32", !.fault = ~probe.u32,
                             !.next = CellStateU32(probe.cell_u32),
                             !.bit = CellBitU32(probe.cell_u32)]
    /\ UNCHANGED <<programvars, squeue>>

\* the first scan into the sink, which PmqSetup left empty: a buffer of B with
\* the memory before it one of PRE
ScanFrom(B, PRE) == ~scan.called /\ \E buf \in B, pre \in PRE : Search(buf, pre)

\* one more scan into the same sink, at most n in all
RescanFrom(B, PRE, n) ==
    /\ scan.called
    /\ scan.count < n
    /\ \E buf \in B, pre \in PRE : Search(buf, pre)

Next ==
    \/ RegisterFrom(PatternInputs, PidInputs, MaxPatterns)
    \/ SCPFACPreparePatterns
    \/ ScanFrom(BufferInputs, PreInputs)

\* the same calls with the inputs of the small specification
NextSmall ==
    \/ RegisterFrom(SmallPatternInputs, SmallPidInputs, SmallCalls)
    \/ SCPFACPreparePatterns
    \/ ScanFrom(SmallBufferInputs, SmallPreInputs)

\* the calls of the small specification, and register calls after prepare
NextLate ==
    \/ RegisterFrom(SmallPatternInputs, SmallPidInputs, SmallCalls)
    \/ SCPFACPreparePatterns
    \/ RegisterLate(SmallPatternInputs, SmallPidInputs, MaxLate)
    \/ ScanFrom(SmallBufferInputs, SmallPreInputs)

\* the calls with patterns of up to LongPatLen lower case bytes
NextLong ==
    \/ RegisterFrom(LongPatternInputs, SmallPidInputs, MaxPatterns)
    \/ SCPFACPreparePatterns
    \/ ScanFrom(LongBufferInputs, LongPreInputs)

\* register and prepare only
NextCompile ==
    \/ RegisterFrom(CompilePatternInputs, SmallPidInputs, MaxPatterns)
    \/ SCPFACPreparePatterns

\* register and prepare, with a state queue of SmallQueueSize slots
NextQueue ==
    \/ RegisterFrom(CompilePatternInputs, SmallPidInputs, MaxPatterns)
    \/ PrepareSized(SmallQueueSize)

\* the calls with pattern ids of more than 16 bits
NextWide ==
    \/ RegisterFrom(ConcPatternInputs, WidePidInputs, SmallCalls)
    \/ SCPFACPreparePatterns
    \/ ScanFrom(SmallBufferInputs, SmallPreInputs)

\* register, prepare, then several scans into one sink
NextRescan ==
    \/ RegisterFrom(ConcPatternInputs, SmallPidInputs, ConcCalls)
    \/ SCPFACPreparePatterns
    \/ ScanFrom(SmallBufferInputs, SmallPreInputs)
    \/ RescanFrom(SmallBufferInputs, SmallPreInputs, MaxScans)

\* register patterns of distinct bytes, prepare, then several scans into one sink
NextSink ==
    \/ RegisterFrom(SinkPatternInputs, SmallPidInputs, SinkCalls)
    \/ SCPFACPreparePatterns
    \/ ScanFrom(SinkBufferInputs, SmallPreInputs)
    \/ RescanFrom(SinkBufferInputs, SmallPreInputs, MaxScans)

\* register, prepare, prepare again
NextPrepare ==
    \/ RegisterFrom(SmallPatternInputs, SmallPidInputs, SmallCalls)
    \/ SCPFACPreparePatterns
    \/ PrepareAgain(MaxPrepares)

\* register, prepare, destroy; destroy also before prepare
NextDestroy ==
    \/ RegisterFrom(SmallPatternInputs, SmallPidInputs, SmallCalls)
    \/ SCPFACPreparePatterns
    \/ SCPFACDestroyCtx

\* register, prepare, then the threads scan at the same time
NextConc ==
    \/ RegisterFrom(ConcPatternInputs, SmallPidInputs, ConcCalls)
    \/ SCPFACPreparePatterns
    \/ \E t \in Scanners, buf \in ConcBufferInputs : SearchEnter(t, buf)
    \/ \E t \in Scanners, pre \in SmallPreInputs : SearchStep(t, pre)

(***************************************************************************)
(* What the claims speak of.                                               *)
(***************************************************************************)
\* a scan has returned
Scanned == scan.called /\ ~scan.fault

\* the len bytes of buf from position k (counted from 0)
Sub(buf, k, len) == SubSeq(buf, k + 1, k + len)

\* pattern p occurs in buf at position k: its folded bytes are there in the
\* folded buffer, and p is NOCASE or the bytes there are p's own
OccursAt(p, buf, k) ==
    /\ k + p.len <= Len(buf)
    /\ memcpy_tolower(Sub(buf, k, p.len)) = p.ci
    /\ (NoCase(p.flags) \/ Sub(buf, k, p.len) = p.original_pat)

\* the occurrences of the registered patterns in buf, as <<n, k>>
Occurrences(buf) ==
    {o \in (1..Len(registered)) \X (0..(Len(buf) - 1)) : OccursAt(registered[o[1]], buf, o[2])}

PidList == SubSeq(pmq.pattern_id_array, 1, pmq.pattern_id_array_cnt)

Recorded(id) == id \in pmq.pattern_id_bitarray /\ id \in Range(PidList)

\* the context the calls cs build, by SCPFACAddPattern from SCPFACInitCtx
RECURSIVE ReplayCalls(_, _, _)
ReplayCalls(c, cs, i) ==
    IF i > Len(cs) THEN c
    ELSE ReplayCalls(AddPattern(c, cs[i].pat, Len(cs[i].pat), cs[i].pid, cs[i].flags), cs, i + 1)

C2_VerifySound ==
    Scanned =>
        \A n \in 1..Len(scan.log) :
            scan.log[n].verify =>
                LET e == PidPatEntry(pid_pat_list, scan.log[n].pid)
                    start == scan.log[n].j - e.patlen + 1
                IN  start >= 0 /\ Sub(scan.buf, start, e.patlen) = e.cs

\* C3: when no registered pattern occurs in the buffer the scan returns 0 and
\* the sink stays empty.
C3_NoFalsePositive ==
    (Scanned /\ Occurrences(scan.buf) = {}) =>
        /\ scan.matches = 0
        /\ pmq.pattern_id_array_cnt = 0
        /\ pmq.pattern_id_bitarray = {}

\* the occurrences that share a buffer position with an occurrence of a
\* pattern of other folded bytes
OverlappingOccurrences(buf) ==
    {o \in Occurrences(buf) :
        \E o2 \in Occurrences(buf) :
            /\ registered[o2[1]].ci # registered[o[1]].ci
            /\ o[2] <= o2[2] + registered[o2[1]].len - 1
            /\ o2[2] <= o[2] + registered[o[1]].len - 1}

\* C4: every one of the occurrences that overlap is recorded, and each counts
\* in the value returned.
C4_OverlapsReported ==
    Scanned =>
        /\ \A o \in OverlappingOccurrences(scan.buf) : Recorded(registered[o[1]].id)
        /\ scan.matches >= Cardinality(OverlappingOccurrences(scan.buf))

\* C5: the value returned is the number of pids that passed their test, which
\* is the number of occurrences of the registered patterns in the buffer.
C5_ReturnCountsEmissions ==
    Scanned =>
        /\ scan.matches = Len(scan.log)
        /\ scan.matches = Cardinality(Occurrences(scan.buf))

\* the test of an output table entry at a hit of the walk from i holds for
\* sure: no verify bit, or the window compared lies in the buffer and equals
\* the case sensitive bytes
OwnConditionHolds(entry, i) ==
    \/ entry \div PID_VERIFY_BIT = 0
    \/ LET e == PidPatEntry(pid_pat_list, entry % PID_VERIFY_BIT)
       IN  /\ i - e.patlen + 1 >= 0
           /\ Sub(scan.buf, i - e.patlen + 1, e.patlen) = e.cs

\* C6: at every cell with the output bit, every pid of the row whose own test
\* holds is recorded, wherever in the row a pid that fails its verification is.
C6_FailedVerifySkipsOnlyThatPid ==
    Scanned =>
        \A n \in 1..Len(scan.hits) :
            LET row == output_table[scan.hits[n].state + 1]
            IN  \A k \in 1..Len(row) :
                    OwnConditionHolds(row[k], scan.hits[n].i) =>
                        Recorded(row[k] % PID_VERIFY_BIT)

\* C7: after a scan into an empty sink each pid is in the pid list at most
\* once, and a bit of the bit array is set exactly for the pids of the list.
C7_SinkConsistent ==
    scan.called =>
        /\ pmq.pattern_id_array_cnt = Len(pmq.pattern_id_array)
        /\ \A a, b \in 1..Len(PidList) : a # b => PidList[a] # PidList[b]
        /\ pmq.pattern_id_bitarray = Range(PidList)

\* a scan that recorded two pids and met a pid it had recorded before
C7_Witness ==
    /\ Scanned
    /\ pmq.pattern_id_array_cnt >= 2
    /\ \E n \in 1..Len(scan.log) : ~scan.log[n].new

AllNoCase == \A n \in 1..Len(calls) : NoCase(calls[n].flags)

\* the calls with every pattern folded to lower case
FoldedCalls == [n \in 1..Len(calls) |-> [calls[n] EXCEPT !.pat = memcpy_tolower(@)]]

\* the context compiled from the folded calls
FoldedCompiled ==
    CHOOSE C \in {Compiled(r.state_count, r.state_table_u16, r.output_table, r.pid_pat_list) :
                    r \in {PreparePatterns(ReplayCalls(InitStore, FoldedCalls, 1))}} : TRUE

\* C8: with NOCASE patterns only, the scan of a buffer records the pids and
\* returns the count of the scan of the folded buffer, and of the scan by the
\* context compiled from the patterns folded to lower case.
C8_NoCaseFoldInvariant ==
    (Scanned /\ AllNoCase) =>
        \A r1 \in {SCPFACSearch(CurrentCompiled, EmptyPmq, memcpy_tolower(scan.buf), <<>>)},
           r2 \in {SCPFACSearch(FoldedCompiled, EmptyPmq, scan.buf, <<>>)} :
            /\ ~r1.fault /\ ~r2.fault
            /\ r1.matches = scan.matches
            /\ r2.matches = scan.matches
            /\ r1.pmq.pattern_id_bitarray = pmq.pattern_id_bitarray
            /\ r2.pmq.pattern_id_bitarray = pmq.pattern_id_bitarray
            /\ Range(r1.pmq.pattern_id_array) = Range(PidList)
            /\ Range(r2.pmq.pattern_id_array) = Range(PidList)

\* a scan of a buffer with an upper case byte that recorded a NOCASE pattern
\* registered with an upper case byte
C8_Witness ==
    /\ Scanned /\ AllNoCase
    /\ \E k \in 1..Len(scan.buf) : u8_tolower(scan.buf[k]) # scan.buf[k]
    /\ \E n \in 1..Len(registered) :
          /\ registered[n].original_pat # registered[n].ci
          /\ Recorded(registered[n].id)

\* the calls without the repetitions of an earlier call
FirstCalls == SelectSeq([n \in 1..Len(calls) |-> [c |-> calls[n], n |-> n]],
                        LAMBDA x : \A m \in 1..(x.n - 1) : calls[m] # x.c)

\* C9: the compiled context is the one compiled from the calls with every
\* repeated (bytes, length, id, flags) registered once.
C9_DuplicateRegistrationIdempotent ==
    phase = "prepared" =>
        \A c \in {ReplayCalls(InitStore, [n \in 1..Len(FirstCalls) |-> FirstCalls[n].c], 1)} :
            \A r \in {PreparePatterns(c)} :
                /\ pattern_cnt = c.pattern_cnt
                /\ minlen = c.minlen /\ maxlen = c.maxlen /\ max_pat_id = c.max_pat_id
                /\ init_hash = r.init_hash
                /\ state_count = r.state_count
                /\ state_table_u16 = r.state_table_u16
                /\ output_table = r.output_table
                /\ pid_pat_list = r.pid_pat_list

\* a compiled context whose pattern was registered twice
C9_Witness ==
    /\ phase = "prepared" /\ state_count > 0
    /\ \E m, n \in 1..Len(calls) : m < n /\ calls[m] = calls[n] /\ Len(calls[m].pat) > 0

\* C10: no two stored patterns share an id.
C10_StoredIdsUnique ==
    init_hash # <<>> =>
        \A m, n \in 1..Len(init_hash[1]) : m # n => init_hash[1][m].id # init_hash[1][n].id

\* C11: a scan of a prepared context returns a count; it does not fault,
\* whatever the buffer, also when no pattern was registered before prepare.
C11_ScanNeverFaults ==
    (phase = "prepared" /\ scan.called) => ~scan.fault

\* C13: a register call made after prepare leaves the pattern count, the min
\* and max length, max_pat_id and the compiled tables as prepare left them.
C13_RegisterAfterPrepareNoEffect ==
    [][(phase = "prepared" /\ late' # late) =>
          UNCHANGED <<pattern_cnt, minlen, maxlen, max_pat_id,
                      state_count, state_table_u16, output_table, pid_pat_list>>]_vars

\* s is t or the start of t
IsPrefix(s, t) == Len(s) <= Len(t) /\ SubSeq(t, 1, Len(s)) = s

\* the context is the one prepare built from the calls before it
ContextAsPrepared ==
    \A p \in {PreparePatterns(ReplayCalls(InitStore, calls, 1))} :
        /\ state_count = p.state_count
        /\ state_table_u16 = p.state_table_u16
        /\ output_table = p.output_table
        /\ pid_pat_list = p.pid_pat_list
        /\ init_hash = p.init_hash

\* what the memory before the buffer of a thread may hold: what the thread has
\* read there, any bytes when it has read none
PreRead(L) == IF L.oob THEN {L.pre} ELSE SmallPreInputs

\* C12: while threads scan one compiled context at the same time, each into
\* its own sink, the context stays as prepare left it, what a thread has
\* recorded so far is the start of what its scan records when it runs alone,
\* and a thread that has returned has the sink and the return value of the
\* scan run alone.
C12_ConcurrentScansIndependent ==
    phase = "prepared" =>
        /\ ContextAsPrepared
        /\ \A t \in Scanners :
              scanners[t].pc # "idle" =>
                  \A r \in {SCPFACSearch(CurrentCompiled, EmptyPmq, scanners[t].buf, pre) :
                                pre \in PreRead(scanners[t])} :
                      /\ scanners[t].fault => r.fault
                      /\ ~r.fault =>
                            /\ IsPrefix(sinks[SinkOf(t)].pattern_id_array, r.pmq.pattern_id_array)
                            /\ sinks[SinkOf(t)].pattern_id_bitarray
                                   = Range(sinks[SinkOf(t)].pattern_id_array)
                            /\ scanners[t].matches <= r.matches
                            /\ scanners[t].pc = "done" =>
                                  /\ sinks[SinkOf(t)] = r.pmq
                                  /\ scanners[t].matches = r.matches
                      /\ (r.fault /\ scanners[t].pc = "done") => scanners[t].fault

\* both threads are inside SCPFACSearch and each has recorded a pid
C12_Witness ==
    /\ \A t \in Scanners : scanners[t].pc = "run" /\ sinks[SinkOf(t)].pattern_id_array_cnt > 0
    /\ scanners[1].buf # scanners[2].buf

\* the log entries of the pids a scan appended to the pid list, in order
Appended == SelectSeq(scan.log, LAMBDA e : e.new)

\* the ids of the output table row of state s, in row order
RowIds(s) == [k \in 1..Len(output_table[s + 1]) |-> output_table[s + 1][k] % PID_VERIFY_BIT]

\* C14: the pids of the pid list are in non-decreasing order of the buffer
\* position where their match ended, and two pids whose matches ended at the
\* same position are in the order of the output table row of the state there.
C14_EmissionOrder ==
    Scanned =>
        \A m, n \in 1..Len(Appended) :
            m < n =>
                /\ Appended[m].j <= Appended[n].j
                /\ Appended[m].j = Appended[n].j =>
                      \E h \in 1..Len(scan.hits) :
                          /\ scan.hits[h].j = Appended[m].j
                          /\ \E a, b \in 1..Len(RowIds(scan.hits[h].state)) :
                                /\ a < b
                                /\ RowIds(scan.hits[h].state)[a] = Appended[m].pid
                                /\ RowIds(scan.hits[h].state)[b] = Appended[n].pid

\* C15: a scan of a buffer of length 0 returns 0 and leaves the bit array, the
\* pid list and the pid count of the sink as they were at the call.
C15_EmptyBufferNoOp ==
    (scan.called /\ scan.buf = <<>>) =>
        /\ ~scan.fault
        /\ scan.matches = 0
        /\ pmq = scan.before

\* a scan of the empty buffer into a sink that held a pid
C15_Witness ==
    /\ scan.called /\ ~scan.fault /\ scan.buf = <<>>
    /\ scan.count > 1
    /\ scan.before.pattern_id_array_cnt > 0

\* prepare has built the tables
Compiled16 == phase = "prepared" /\ state_table_u16 # <<>>

C17_CellsDecodeToStates ==
    Compiled16 =>
        /\ Len(state_table_u16) = state_count
        /\ \A s \in 1..state_count, b \in Bytes :
              /\ CellState(state_table_u16[s][b]) \in 0..(state_count - 1)
              /\ state_table_u16[s][b] # SC_PFAC_FAIL % SC_PFAC_STATE_TYPE_U16_RANGE

\* a compiled table where a state other than the root has a byte without a
\* goto transition and a byte with one
C17_Witness ==
    /\ Compiled16
    /\ \E s \in 2..state_count :
          /\ \E b \in Bytes : state_table_u16[s][b] = 0
          /\ \E b \in Bytes : CellState(state_table_u16[s][b]) > 1

\* the state the delta table leads to from the root along the bytes of w, when
\* every byte of w has a transition to a state other than the root
RECURSIVE WalkFrom(_, _, _)
WalkFrom(s, w, k) ==
    IF k > Len(w) THEN s
    ELSE WalkFrom(CellState(state_table_u16[s + 1][w[k]]), w, k + 1)

\* the labels of the paths from the root: the prefixes of the folded patterns
PathLabels ==
    UNION {{SubSeq(registered[n].ci, 1, k) : k \in 1..registered[n].len} :
              n \in 1..Len(registered)}

IsSuffix(s, w) == Len(s) <= Len(w) /\ SubSeq(w, Len(w) - Len(s) + 1, Len(w)) = s

\* C18: after prepare the output table row of the state with path label w holds
\* the id of every pattern whose folded bytes are w or a proper suffix of w.
C18_OutputClosure ==
    Compiled16 =>
        \A w \in PathLabels :
            \A n \in 1..Len(registered) :
                IsSuffix(registered[n].ci, w) =>
                    \E k \in 1..Len(RowIds(WalkFrom(0, w, 1))) :
                        RowIds(WalkFrom(0, w, 1))[k] = registered[n].id

\* C19: after prepare no id is twice in an output table row, and the entry a
\* registered pattern has in the row of its state holds the pattern's id in
\* its low 16 bits and has the verify bit (bit 16) exactly when the pattern
\* was registered without NOCASE.
C19_VerifyBitReflectsFlag ==
    Compiled16 =>
        /\ \A s \in 0..(state_count - 1) :
              \A a, b \in 1..Len(RowIds(s)) : a # b => RowIds(s)[a] # RowIds(s)[b]
        /\ \A n \in 1..Len(registered) :
              \A t \in {WalkFrom(0, registered[n].ci, 1)} :
                  \E k \in 1..Len(output_table[t + 1]) :
                      /\ output_table[t + 1][k] % PID_VERIFY_BIT = registered[n].id
                      /\ (output_table[t + 1][k] \div PID_VERIFY_BIT = 1)
                             <=> ~NoCase(registered[n].flags)

\* the first bytes of the folded patterns
FirstFoldedBytes == {registered[n].ci[1] : n \in 1..Len(registered)}

\* C20: after prepare the cell of the root for a byte that no folded pattern
\* starts with decodes to the root.
C20_RootSelfLoop ==
    Compiled16 =>
        \A b \in Bytes \ FirstFoldedBytes : CellState(state_table_u16[1][b]) = 0

\* a compiled root row with a byte that leaves the root, registered in upper
\* case, and bytes that do not
C20_Witness ==
    /\ Compiled16
    /\ \E b \in FirstFoldedBytes : CellState(state_table_u16[1][b]) # 0
    /\ \E n \in 1..Len(registered) : registered[n].original_pat[1] \notin FirstFoldedBytes
    /\ Bytes \ FirstFoldedBytes # {}

\* C21: a register call with a pattern of length 0 returns 0 and leaves the
\* pattern count, the min and max length, max_pat_id and the stored patterns
\* as they were.
C21_EmptyPatternIgnored ==
    [][(calls' # calls /\ Len(calls'[Len(calls')].pat) = 0) =>
          /\ calls'[Len(calls')].ret = 0
          /\ UNCHANGED <<init_hash, pattern_cnt, minlen, maxlen, max_pat_id, registered>>]_vars

\* a register call with a pattern of length 0 was made on a context that held
\* a pattern
C21_Witness ==
    /\ phase = "init" /\ pattern_cnt > 0
    /\ Len(calls) > 1 /\ Len(calls[Len(calls)].pat) = 0

\* C22: after a prepare of a context with at least one stored pattern the goto
\* table, the hash of the stored patterns and the pattern array are released
\* (NULL), and the delta table, the output table and the verifier index
\* (pid_pat_list) are there and stay as prepare built them.
C22_ScratchReleased ==
    (phase = "prepared" /\ Len(registered) > 0) =>
        /\ goto_table = <<>>
        /\ init_hash = <<>>
        /\ parray = <<>>
        /\ state_table_u16 # <<>> /\ Len(state_table_u16) = state_count
        /\ output_table # <<>> /\ Len(output_table) = state_count
        /\ pid_pat_list # <<>> /\ pid_pat_list.size = max_pat_id + 1
        /\ ContextAsPrepared

\* a context with a stored pattern was prepared and then scanned more than once
C22_Witness ==
    /\ phase = "prepared" /\ Len(registered) > 0
    /\ Scanned /\ scan.count > 1 /\ scan.matches > 0

\* the smallest and the largest number of a non-empty set of numbers
MinOf(S) == CHOOSE x \in S : \A y \in S : x <= y
MaxOf(S) == CHOOSE x \in S : \A y \in S : y <= x

\* the patterns the hash holds before prepare
Stored == init_hash[1]

\* C23: before prepare pattern_cnt is the number of stored patterns, minlen
\* their least length, maxlen their greatest length and max_pat_id their
\* greatest id, all 0 when no pattern is stored; so a call that stores nothing
\* changes none of them.
C23_CountersTrackStored ==
    phase = "init" =>
        /\ pattern_cnt = Len(Stored)
        /\ Stored = registered
        /\ IF Len(Stored) = 0
           THEN minlen = 0 /\ maxlen = 0 /\ max_pat_id = 0
           ELSE /\ minlen = MinOf({Stored[n].len : n \in 1..Len(Stored)})
                /\ maxlen = MaxOf({Stored[n].len : n \in 1..Len(Stored)})
                /\ max_pat_id = MaxOf({Stored[n].id : n \in 1..Len(Stored)})

\* two patterns are stored, the second one shorter and of a smaller id than
\* the first
C23_Witness ==
    /\ phase = "init" /\ Len(Stored) = 2
    /\ Stored[2].len < Stored[1].len
    /\ Stored[2].id < Stored[1].id

\* C24: every byte a scan reads, the bytes of a verification window included,
\* lies inside the buffer.
C24_ScanReadsInsideBuffer ==
    Scanned => ~scan.oob

\* C25: every walk of a scan, the one from each start offset i, begins in the
\* root state 0.
C25_WalkStartsAtRoot ==
    Scanned => \A n \in 1..Len(scan.starts) : scan.starts[n].state = 0

\* the label of the failure state of the state with label w: the longest proper
\* suffix of w that is the label of a state (the empty label is the root's)
FailureLabel(w) ==
    LET cand == {SubSeq(w, k, Len(w)) : k \in 2..(Len(w) + 1)} \cap (PathLabels \cup {<<>>})
    IN  CHOOSE s \in cand : \A t \in cand : Len(t) <= Len(s)

\* C26: after prepare, for the state r with label w and a byte b, the cell of
\* r for b leads to the state with label w.b when there is one, and otherwise
\* to the state the cell of r's failure state for b leads to.
C26_DeltaFlattening ==
    Compiled16 =>
        \A w \in PathLabels, b \in LongBytes :
            IF Append(w, b) \in PathLabels
            THEN /\ CellState(state_table_u16[WalkFrom(0, w, 1) + 1][b]) # 0
                 /\ CellState(state_table_u16[WalkFrom(0, w, 1) + 1][b])
                        = WalkFrom(0, Append(w, b), 1)
            ELSE CellState(state_table_u16[WalkFrom(0, w, 1) + 1][b])
                     = CellState(state_table_u16[WalkFrom(0, FailureLabel(w), 1) + 1][b])

\* the orders the calls before prepare can be made in
CallOrders == {f \in [1..Len(calls) -> 1..Len(calls)] : \A a, b \in 1..Len(calls) : a # b => f[a] # f[b]}

\* the context compiled from the calls made in the order f
CompiledInOrder(f) ==
    CHOOSE C \in {Compiled(r.state_count, r.state_table_u16, r.output_table, r.pid_pat_list) :
                    r \in {PreparePatterns(ReplayCalls(InitStore,
                                                       [n \in 1..Len(calls) |-> calls[f[n]]], 1))}} :
        TRUE

\* C27: the scan of a buffer by the context compiled from the same register
\* calls made in any other order records the same set of pids and returns the
\* same count.
C27_RegistrationOrderIrrelevant ==
    Scanned =>
        \A f \in CallOrders :
            \A r \in {SCPFACSearch(CompiledInOrder(f), EmptyPmq, scan.buf, pre) :
                          pre \in IF scan.oob THEN {scan.pre} ELSE SmallPreInputs} :
                /\ ~r.fault
                /\ r.pmq.pattern_id_bitarray = pmq.pattern_id_bitarray
                /\ Range(r.pmq.pattern_id_array) = Range(PidList)
                /\ r.matches = scan.matches

\* the 32 bit table of the patterns the calls before prepare stored
CurrentStateTableU32 ==
    CHOOSE t \in {StateTableU32(ParrayOf(ReplayCalls(InitStore, calls, 1).init_hash[1]))} : TRUE

\* C28: for the patterns registered and the buffer scanned, the 32 bit branch
\* of the scan on the 32 bit table records the pids the 16 bit branch recorded,
\* in the same order, and returns the same count.
C28_TableWidthNotObservable ==
    (Scanned /\ Len(registered) > 0) =>
        \A r \in {SCPFACSearchU32(CurrentStateTableU32, CurrentCompiled, EmptyPmq, scan.buf, pre) :
                      pre \in IF scan.oob THEN {scan.pre} ELSE LongPreInputs} :
            /\ SubSeq(r.pmq.pattern_id_array, 1, r.pmq.pattern_id_array_cnt) = PidList
            /\ r.pmq.pattern_id_bitarray = pmq.pattern_id_bitarray
            /\ r.matches = scan.matches

\* the state queue at the end of the breadth first pass of the prepare call
PrepareQueue ==
    CHOOSE q \in {DeltaQueue(ParrayOf(ReplayCalls(InitStore, calls, 1).init_hash[1]),
                             SmallQueueSize)} : TRUE

\* C29: prepare exits on the queue's fatal path only if at some point as many
\* states were pending as the queue has slots; when there never were that
\* many, prepare returns and the pass has dequeued every state other than the
\* root exactly once, whatever the number of states enqueued in all.
C29_QueueFatalOnlyWhenFull ==
    (phase \in {"prepared", "exited"} /\ Len(registered) > 0) =>
        \A q \in {PrepareQueue} :
            /\ phase = "exited" => q.maxpending >= SmallQueueSize
            /\ q.maxpending < SmallQueueSize =>
                  /\ phase = "prepared"
                  /\ Len(q.done) = state_count - 1
                  /\ Range(q.done) = 1..(state_count - 1)

\* C30: every pid a scan records is the id, as it was registered, of a
\* registered pattern whose folded bytes are in the folded buffer; an id of
\* 1 << 16 or more is recorded in full.
C30_RecordedPidIsRegisteredId ==
    Scanned =>
        \A k \in 1..Len(PidList) :
            \E n \in 1..Len(registered) :
                /\ registered[n].id = PidList[k]
                /\ \E at \in 0..(Len(scan.buf) - registered[n].len) :
                      memcpy_tolower(Sub(scan.buf, at, registered[n].len)) = registered[n].ci

C32_VerifierIndex ==
    (phase = "prepared" /\ Len(registered) > 0) =>
        /\ pid_pat_list.size = max_pat_id + 1
        /\ \A id \in 0..max_pat_id :
              /\ \A n \in 1..Len(registered) :
                    registered[n].id = id =>
                        PidPatEntry(pid_pat_list, id) =
                            IF NoCase(registered[n].flags) THEN ZeroPatternList
                            ELSE [cs |-> registered[n].original_pat,
                                  patlen |-> registered[n].len]
              /\ (\A n \in 1..Len(registered) : registered[n].id # id) =>
                    PidPatEntry(pid_pat_list, id) = ZeroPatternList

\* the goto table and the state count after SCPFACDetermineLevel1Gap, after
\* SCPFACCreateGotoTable, and after the patterns are entered without the
\* pass of SCPFACDetermineLevel1Gap before
TrieOf(pa) ==
    [level1 |-> SCPFACDetermineLevel1Gap(SCPFACInitNewState(NoTables), pa),
     built |-> SCPFACCreateGotoTable(
                   SCPFACDetermineLevel1Gap(SCPFACInitNewState(NoTables), pa), pa),
     plain |-> EnterAll(SCPFACInitNewState(NoTables), pa, 1)]

\* the goto transitions of T that lead to state t, as <<state, byte>>
Incoming(T, t) ==
    {e \in (0..(T.state_count - 1)) \X Bytes : T.goto_table[e[1] + 1][e[2]] = t}

\* C33: after prepare the state count is 1 plus the number of distinct
\* non-empty prefixes of the folded patterns, and in the goto table every
\* state other than the root has exactly one incoming transition; the pass of
\* SCPFACDetermineLevel1Gap creates one child of the root for each distinct
\* first byte and nothing else, and the whole construction creates as many
\* states as the insertion of the patterns alone.
C33_TrieShape ==
    (phase = "prepared" /\ Len(registered) > 0) =>
        \A T \in {TrieOf(ParrayOf(registered))} :
            /\ state_count = 1 + Cardinality(PathLabels)
            /\ T.built.state_count = state_count
            /\ \A t \in 1..(state_count - 1) : Cardinality(Incoming(T.built, t)) = 1
            /\ T.level1.state_count = 1 + Cardinality(FirstFoldedBytes)
            /\ \A b \in Bytes :
                  IF b \in FirstFoldedBytes
                  THEN T.level1.goto_table[1][b] \in 1..(T.level1.state_count - 1)
                  ELSE T.level1.goto_table[1][b] = SC_PFAC_FAIL
            /\ \A t \in 1..(T.level1.state_count - 1) : Cardinality(Incoming(T.level1, t)) = 1
            /\ T.plain.state_count = state_count

\* a context compiled from two patterns, the one a proper prefix of the other
C33_Witness ==
    /\ phase = "prepared" /\ Len(registered) = 2 /\ state_count = 3
    /\ \E m, n \in 1..2 :
          /\ registered[m].len = 1 /\ registered[n].len = 2
          /\ IsPrefix(registered[m].ci, registered[n].ci)

\* the pid list of the sink as it was when the last scan was called
PidListBefore == SubSeq(scan.before.pattern_id_array, 1, scan.before.pattern_id_array_cnt)

\* the distinct ids of the registered patterns
RegisteredIds == {registered[n].id : n \in 1..Len(registered)}

\* C34: after every scan of a sequence of scans into one sink, the pid list is
\* the list as it was at the call with the new pids appended, no bit of the bit
\* array was cleared, no pid is in the list twice, and the pid count is at most
\* the number of distinct ids of the registered patterns.
C34_SinkGrowsWithinIds ==
    scan.called =>
        /\ IsPrefix(PidListBefore, PidList)
        /\ scan.before.pattern_id_bitarray \subseteq pmq.pattern_id_bitarray
        /\ \A a, b \in 1..Len(PidList) : a # b => PidList[a] # PidList[b]
        /\ pmq.pattern_id_array_cnt = Len(pmq.pattern_id_array)
        /\ pmq.pattern_id_array_cnt <= Cardinality(RegisteredIds)

\* the second scan into a sink met the pid the first one had recorded and
\* recorded a new one
C34_Witness ==
    /\ Scanned /\ scan.count = 2
    /\ scan.before.pattern_id_array_cnt = 1 /\ pmq.pattern_id_array_cnt = 2
    /\ \E n \in 1..Len(scan.log) : ~scan.log[n].new
    /\ \E n \in 1..Len(scan.log) : scan.log[n].new

\* C35: a call of prepare on a context that prepare was called on before
\* returns 0 and leaves the delta table, the output table, the verifier index,
\* the state count, the pattern count, the released scratch structures and
\* the memory counters as the call before left them.
C35_PrepareIdempotent ==
    [][(phase = "prepared" /\ prepare_rets' # prepare_rets) =>
          /\ prepare_rets'[Len(prepare_rets')] = 0
          /\ phase' = "prepared"
          /\ UNCHANGED <<state_table_u16, output_table, pid_pat_list, state_count,
                         pattern_cnt, minlen, maxlen, max_pat_id, init_hash,
                         goto_table, parray, memory_cnt, memory_size, heap>>]_vars

\* prepare was called three times on a context compiled from two patterns
C35_Witness ==
    /\ phase = "prepared" /\ Len(prepare_rets) = 3
    /\ Len(registered) = 2 /\ state_count = 2 /\ state_table_u16 # <<>>

\* C36: after destroy no block allocated for the context by create, register
\* or prepare is left allocated, whether destroy was called before prepare or
\* after it.
C36_DestroyReleasesAll ==
    phase = "destroyed" => heap = {}

\* C37: SCPFACEnqueue leaves the queue as it was when the state is already
\* pending (written by an earlier SCPFACEnqueue and not yet returned by
\* SCPFACDequeue), wherever the pending region lies in the ring, wrapped around
\* the end of the store or not.
C37_EnqueuePendingIsNoOp ==
    (squeue # NoQueue /\ squeue.last.op = "enqueue" /\ squeue.last.was_pending)
        => SameRing(squeue.q, squeue.last.before)

\* C38: while fewer states are pending than the store has slots,
\* SCPFACDequeue returns the states in the order SCPFACEnqueue wrote them, and
\* SCPFACStateQueueIsEmpty is true exactly when every state written has been
\* returned, also after top or bot has reached the end of the store.
C38_QueueIsFifo ==
    (squeue # NoQueue /\ ~squeue.q.fatal /\ squeue.q.maxpending < squeue.q.size)
        => /\ Len(squeue.q.done) <= Len(squeue.stored)
           /\ squeue.q.done = SubSeq(squeue.stored, 1, Len(squeue.q.done))
           /\ SCPFACStateQueueIsEmpty(squeue.q) <=> (squeue.pend = <<>>)

\* a uint32_t counter of the context that has wrapped below zero: the blocks of
\* a context of the model never add up to 2^31, so a value of 2^31 or more is
\* reached only by a subtraction from a smaller counter
WrappedBelowZero(x) == x[1] >= HALF_RANGE \div 2

\* C39: memory_cnt and memory_size balance: after create, any registers,
\* prepare or not, and destroy, both have the values they had before create,
\* and in no state has either of them wrapped below zero.
C39_MemoryCountersBalance ==
    /\ ~WrappedBelowZero(memory_cnt)
    /\ ~WrappedBelowZero(memory_size)
    /\ phase = "destroyed" =>
          /\ memory_cnt = NoMemory.memory_cnt
          /\ memory_size = NoMemory.memory_size

Spec == Init /\ [][Next]_vars

SpecSmall == Init /\ [][NextSmall]_vars

SpecLate == Init /\ [][NextLate]_vars

SpecConc == Init /\ [][NextConc]_vars

SpecLong == Init /\ [][NextLong]_vars

SpecRescan == Init /\ [][NextRescan]_vars

SpecCompile == Init /\ [][NextCompile]_vars

SpecQueue == Init /\ [][NextQueue]_vars

SpecWide == Init /\ [][NextWide]_vars

SpecSink == Init /\ [][NextSink]_vars

SpecPrepare == Init /\ [][NextPrepare]_vars

SpecDestroy == Init /\ [][NextDestroy]_vars

\* the table width code applied to a state count and a cell
InitWidth ==
    /\ InitProgram
    /\ squeue = NoQueue
    /\ probe \in {NewProbe(sc) : sc \in WidthStateCounts}

NextWidth ==
    \/ ProbeInitNewState
    \/ ProbeCreateDeltaTable
    \/ ProbeSearch

SpecWidth == InitWidth /\ [][NextWidth]_vars

(***************************************************************************)
(* The queue functions called on their own.  squeue is [q, stored, pend,   *)
(* calls, last]: q is the StateQueue, stored the states SCPFACEnqueue      *)
(* wrote to the store, in order, pend the ones of them SCPFACDequeue has   *)
(* not returned yet, calls the number of calls made, last the last call    *)
(* with the queue it was made on.                                          *)
(***************************************************************************)
\* the states the callers enqueue: never 0, the root is not enqueued
QueueStates == {1, 2}

NoCall == [op |-> "none", state |-> 0, was_pending |-> FALSE,
           before |-> EmptyQueue(SmallQueueSize)]

\* StateQueue q; memset(&q, 0, sizeof(StateQueue));
NewStateQueue ==
    [q |-> EmptyQueue(SmallQueueSize), stored |-> <<>>, pend |-> <<>>,
     calls |-> 0, last |-> NoCall]

QueueEnqueue(state) ==
    /\ squeue # NoQueue /\ ~squeue.q.fatal /\ squeue.calls < MaxQueueCalls
    /\ LET q2 == SCPFACEnqueue(squeue.q, state)
           wrote == ~SameRing(q2, squeue.q)
       IN  squeue' = [q |-> q2,
                      stored |-> IF wrote THEN Append(squeue.stored, state)
                                 ELSE squeue.stored,
                      pend |-> IF wrote THEN Append(squeue.pend, state)
                               ELSE squeue.pend,
                      calls |-> squeue.calls + 1,
                      last |-> [op |-> "enqueue", state |-> state,
                                was_pending |-> \E k \in 1..Len(squeue.pend) :
                                                   squeue.pend[k] = state,
                                before |-> squeue.q]]
    /\ UNCHANGED <<programvars, probe>>

\* the callers dequeue only while states are pending
QueueDequeue ==
    /\ squeue # NoQueue /\ ~squeue.q.fatal /\ squeue.calls < MaxQueueCalls
    /\ squeue.pend # <<>>
    /\ LET d == SCPFACDequeue(squeue.q)
       IN  squeue' = [squeue EXCEPT !.q = d[1], !.pend = Tail(@),
                                    !.calls = @ + 1,
                                    !.last = [op |-> "dequeue", state |-> d[2],
                                              was_pending |-> TRUE,
                                              before |-> squeue.q]]
    /\ UNCHANGED <<programvars, probe>>

InitRing ==
    /\ InitProgram
    /\ probe = NoProbe
    /\ squeue = NewStateQueue

NextRing ==
    \/ \E state \in QueueStates : QueueEnqueue(state)
    \/ QueueDequeue

SpecRing == InitRing /\ [][NextRing]_vars
====
